---- MODULE Spec2Model ----
(***************************************************************************)
(* A model of the search-classify-filter pipeline of GummyClone Lite:      *)
(* reddit_api.py (Post Source, Post Formatter), openai_classifier.py       *)
(* (Post Classifier) and app.py (Result Filter, Search Orchestrator and    *)
(* the session state the Streamlit script keeps between reruns).           *)
(*                                                                         *)
(* Python strings are TLA+ strings; "x in s" is substring containment      *)
(* computed position by position, and str.lower() maps the characters one  *)
(* by one.  A JSON value is a tagged record [t, v]; a dict is a function   *)
(* whose domain is its set of keys; Optional values are None == <<>> or    *)
(* Some(x) == <<x>>.                                                       *)
(***************************************************************************)
EXTENDS Integers, Sequences, FiniteSets, TLC

VARIABLES
    search_history,    \* st.session_state.search_history (app.py:93-94)
    current_results,   \* st.session_state.current_results (app.py:96-97)
    current_summary,   \* st.session_state.current_summary (app.py:99-100)
    original_results,  \* st.session_state.original_results (app.py:163), absent at first
    pc,                \* position of the call the specification observes
    inp,               \* the inputs of that call
    out                \* what the call returned and did

vars == <<search_history, current_results, current_summary, original_results, pc, inp, out>>

session == <<search_history, current_results, current_summary, original_results>>

call == <<pc, inp, out>>

----------------------------------------------------------------------------
(* Python values *)

None == <<>>

Some(x) == <<x>>

IsNone(o) == o = <<>>

Val(o) == o[1]

JStr(s) == [t |-> "str", v |-> s]

JNum(n) == [t |-> "num", v |-> n]

JList(l) == [t |-> "list", v |-> l]

JObj(d) == [t |-> "obj", v |-> d]

\* dict.get(key, default)
DictGet(d, key, default) == IF key \in DOMAIN d THEN d[key] ELSE default

\* "k in s" for two strings
Contains(s, k) ==
    \E i \in 1..(Len(s) - Len(k) + 1) : SubSeq(s, i, i + Len(k) - 1) = k

\* s.startswith(k)
StartsWith(s, k) == Len(s) >= Len(k) /\ SubSeq(s, 1, Len(k)) = k

UpperChars == "ABCDEFGHIJKLMNOPQRSTUVWXYZÁÀÂÃÉÊÍÓÔÕÚÇ"

LowerChars == "abcdefghijklmnopqrstuvwxyzáàâãéêíóôõúç"

LowerChar(c) ==
    IF \E i \in 1..Len(UpperChars) : SubSeq(UpperChars, i, i) = c
    THEN LET i == CHOOSE j \in 1..Len(UpperChars) : SubSeq(UpperChars, j, j) = c
         IN  SubSeq(LowerChars, i, i)
    ELSE c

RECURSIVE LowerFrom(_, _)
LowerFrom(s, i) ==
    IF i > Len(s) THEN "" ELSE LowerChar(SubSeq(s, i, i)) \o LowerFrom(s, i + 1)

\* str.lower()
Lower(s) == LowerFrom(s, 1)

\* any(word in text for word in words)
AnyIn(words, text) == \E i \in 1..Len(words) : Contains(text, words[i])

RECURSIVE JoinFrom(_, _, _)
JoinFrom(sep, l, i) ==
    IF i > Len(l) THEN ""
    ELSE IF i = Len(l) THEN l[i]
    ELSE l[i] \o sep \o JoinFrom(sep, l, i + 1)

\* sep.join(l) for a list of strings
Join(sep, l) == JoinFrom(sep, l, 1)

----------------------------------------------------------------------------
(* openai_classifier.py: the rule-based fallback *)

categories ==
    <<"Pergunta", "Discussão", "Pedido de Ajuda", "Tutorial",
      "Compartilhamento", "Notícia", "Opinião", "Desabafo">>

sentiments == <<"Positivo", "Neutro", "Negativo", "Misto">>

positive_words == <<"ótimo", "excelente", "bom", "gosto", "feliz", "sucesso">>

negative_words == <<"ruim", "péssimo", "problema", "difícil", "frustrado", "triste">>

contrast_words == <<"mas", "porém", "entretanto", "contudo">>

\* the dict topic_keywords, in insertion order
topic_keywords ==
    << <<"Programação", <<"código", "programação", "programar", "função", "algoritmo">> >>,
       <<"Tecnologia", <<"tecnologia", "tech", "inovação", "gadget", "dispositivo">> >>,
       <<"Carreira", <<"carreira", "emprego", "trabalho", "vaga", "entrevista", "cv", "currículo">> >>,
       <<"Educação", <<"aprender", "curso", "estudar", "faculdade", "universidade", "bootcamp">> >>,
       <<"Desenvolvimento Web", <<"web", "site", "frontend", "backend", "html", "css", "javascript">> >>,
       <<"Ciência de Dados", <<"dados", "data", "análise", "estatística", "pandas", "visualização">> >>,
       <<"Inteligência Artificial", <<"ia", "ai", "machine learning", "ml", "modelo", "gpt", "neural">> >>,
       <<"Produtividade", <<"produtividade", "eficiência", "organização", "tempo", "hábito">> >>,
       <<"Negócios", <<"negócio", "empresa", "startup", "empreendedor", "mercado", "cliente">> >>,
       <<"Marketing", <<"marketing", "divulgação", "propaganda", "audiência", "cliente", "seo">> >>,
       <<"Design", <<"design", "ui", "ux", "interface", "usuário", "experiência", "visual">> >>,
       <<"Mobile", <<"mobile", "app", "aplicativo", "android", "ios", "celular", "smartphone">> >> >>

\* lines 80-95 with the second rule tried before the first
MockCategory_HelpFirst(post_title) ==
    LET title_lower == Lower(post_title) IN
    IF Contains(title_lower, "ajuda") \/ Contains(title_lower, "problema")
    THEN "Pedido de Ajuda"
    ELSE IF Contains(post_title, "?") \/ Contains(title_lower, "como") \/ Contains(title_lower, "dúvida")
    THEN "Pergunta"
    ELSE IF Contains(title_lower, "tutorial") \/ Contains(title_lower, "guia")
    THEN "Tutorial"
    ELSE IF Contains(title_lower, "notícia") \/ Contains(title_lower, "lançamento")
            \/ Contains(title_lower, "anúncio")
    THEN "Notícia"
    ELSE IF Contains(title_lower, "opinião") \/ Contains(title_lower, "acho que")
    THEN "Opinião"
    ELSE IF Contains(title_lower, "compartilhando") \/ Contains(title_lower, "criei")
    THEN "Compartilhamento"
    ELSE IF Contains(title_lower, "desabafo") \/ Contains(title_lower, "frustrado")
    THEN "Desabafo"
    ELSE "Discussão"

\* lines 80-95: the category, first matching rule in source order
MockCategory(post_title) ==
    LET title_lower == Lower(post_title) IN
    IF Contains(post_title, "?") \/ Contains(title_lower, "como") \/ Contains(title_lower, "dúvida")
    THEN "Pergunta"
    ELSE IF Contains(title_lower, "ajuda") \/ Contains(title_lower, "problema")
    THEN "Pedido de Ajuda"
    ELSE IF Contains(title_lower, "tutorial") \/ Contains(title_lower, "guia")
            \/ Contains(title_lower, "como fazer")
    THEN "Tutorial"
    ELSE IF Contains(title_lower, "notícia") \/ Contains(title_lower, "lançamento")
            \/ Contains(title_lower, "anúncio")
    THEN "Notícia"
    ELSE IF Contains(title_lower, "opinião") \/ Contains(title_lower, "acho que")
    THEN "Opinião"
    ELSE IF Contains(title_lower, "compartilhando") \/ Contains(title_lower, "criei")
    THEN "Compartilhamento"
    ELSE IF Contains(title_lower, "desabafo") \/ Contains(title_lower, "frustrado")
    THEN "Desabafo"
    ELSE "Discussão"

\* lines 97-107: the sentiment, from the body only
MockSentiment(post_text) ==
    LET text_lower == Lower(post_text) IN
    IF AnyIn(positive_words, text_lower) THEN "Positivo"
    ELSE IF AnyIn(negative_words, text_lower) THEN "Negativo"
    ELSE IF AnyIn(contrast_words, text_lower)
            /\ AnyIn(<<"bom", "gosto">>, text_lower)
            /\ AnyIn(<<"ruim", "problema">>, text_lower)
    THEN "Misto"
    ELSE "Neutro"

TopicHit(entry, title_lower, text_lower) ==
    \E i \in 1..Len(entry[2]) :
        Contains(title_lower, entry[2][i]) \/ Contains(text_lower, entry[2][i])

RECURSIVE TopicsFrom(_, _, _)
TopicsFrom(i, title_lower, text_lower) ==
    IF i > Len(topic_keywords) THEN <<>>
    ELSE (IF TopicHit(topic_keywords[i], title_lower, text_lower)
          THEN <<topic_keywords[i][1]>> ELSE <<>>)
         \o TopicsFrom(i + 1, title_lower, text_lower)

MockTopics_NoDefault(post_title, post_text) ==
    TopicsFrom(1, Lower(post_title), Lower(post_text))

\* lines 109-132: the topics, in dictionary order, with the generic default
MockTopics(post_title, post_text) ==
    LET post_topics == TopicsFrom(1, Lower(post_title), Lower(post_text)) IN
    IF post_topics = <<>> THEN <<"Discussão Geral">> ELSE post_topics

InSeq(x, l) == \E i \in 1..Len(l) : l[i] = x

\* lines 134-153: the templated insights
MockInsights(category, sentiment, post_topics) ==
    LET i1 == IF category = "Pergunta" \/ category = "Pedido de Ajuda"
              THEN <<"O usuário está buscando informações ou assistência.">> ELSE <<>>
        i2 == IF sentiment = "Negativo"
              THEN <<"O tom do post sugere frustração ou dificuldade com o assunto.">>
              ELSE IF sentiment = "Positivo"
              THEN <<"O usuário demonstra entusiasmo ou satisfação com o tema.">>
              ELSE <<>>
        i3 == IF InSeq("Programação", post_topics) \/ InSeq("Desenvolvimento Web", post_topics)
              THEN <<"Este post está relacionado a desenvolvimento de software.">> ELSE <<>>
        i4 == IF InSeq("Carreira", post_topics)
              THEN <<"O usuário pode estar em transição de carreira ou buscando crescimento profissional.">>
              ELSE <<>>
        insights == i1 \o i2 \o i3 \o i4
    IN  IF Len(insights) < 2
        THEN Append(insights, "Este post parece ser relevante para a comunidade de tecnologia.")
        ELSE insights

\* the dict a classification is: the four keys of the prompt
ClassificationDict(category, sentiment, post_topics, insights) ==
    ("categoria" :> JStr(category)) @@ ("sentimento" :> JStr(sentiment))
    @@ ("tópicos" :> JList(post_topics)) @@ ("insights" :> JList(insights))

\* lines 48-161: the fallback's classification, computed from the text
RuleBased(post_title, post_text) ==
    LET category == MockCategory(post_title)
        sentiment == MockSentiment(post_text)
        post_topics == MockTopics(post_title, post_text)
    IN  JObj(ClassificationDict(category, sentiment, post_topics,
                                MockInsights(category, sentiment, post_topics)))

\* the titles and bodies the specifications below classify
KnownTitles ==
    { "",
      "Dúvida sobre python: como resolver este problema?",
      "Preciso de ajuda com python para um projeto",
      "Recursos recomendados para python",
      "Novidades em ai que você precisa conhecer",
      "Preciso de ajuda com ai para um projeto",
      "Tutorial de python",
      "Como fazer deploy",
      "Guia de carreira",
      "Lançamento do novo site",
      "Acho que python vale a pena",
      "Criei um app",
      "Desabafo: estou frustrado",
      "Vale a pena?",
      "Um problema de desempenho",
      "Notícia da semana",
      "Anúncio oficial",
      "Minha opinião sobre python",
      "Compartilhando meu projeto",
      "Estou frustrado" }

KnownTexts ==
    { "",
      "Estou trabalhando com python e encontrei um problema que não consigo resolver.",
      "Sou iniciante em ai e gostaria de saber por onde começar.",
      "Tenho um projeto que envolve ai e preciso de conselhos.",
      "Gosto de python, mas tenho um problema",
      "O curso é bom, porém o suporte é ruim",
      "Tenho um problema no código e na carreira",
      "Resultado excelente",
      "dez letras" }

\* RuleBased on those texts, evaluated once: <<title, body, classification>>
KnownClassifications ==
    { <<t, x, RuleBased(t, x)>> : t \in KnownTitles, x \in KnownTexts }

\* lines 48-161
_mock_classify_post(post_title, post_text) ==
    IF post_title \in KnownTitles /\ post_text \in KnownTexts
    THEN (CHOOSE k \in KnownClassifications : k[1] = post_title /\ k[2] = post_text)[3]
    ELSE RuleBased(post_title, post_text)

----------------------------------------------------------------------------
(* openai_classifier.py: classify_post *)

\* What the remote path of one classify_post call meets.  "no_api_key": the key
\* is gone from the environment and the secrets at call time (lines 182-188);
\* "transport_error", "auth_failure": client.chat.completions.create raises
\* (line 225); "non_json": json.loads raises (line 237); "ok": json.loads
\* returns the JSON value resp.
RemoteFailures == {"no_api_key", "transport_error", "auth_failure", "non_json"}

Failure(kind) == [kind |-> kind, resp |-> [t |-> "none", v |-> 0]]

Answer(resp) == [kind |-> "ok", resp |-> resp]

NoOutcome == [kind |-> "unused", resp |-> [t |-> "none", v |-> 0]]

\* the request sent a second time after a transport error
TryBody_Retrying(post_title, post_text, outcome) ==
    IF outcome.kind = "no_api_key"
    THEN [exc |-> "none", ret |-> _mock_classify_post(post_title, post_text),
          remote |-> 0, fallback |-> 1]
    ELSE IF outcome.kind = "transport_error"
    THEN [exc |-> "APIConnectionError", ret |-> outcome.resp, remote |-> 2, fallback |-> 0]
    ELSE IF outcome.kind = "auth_failure"
    THEN [exc |-> "AuthenticationError", ret |-> outcome.resp, remote |-> 1, fallback |-> 0]
    ELSE IF outcome.kind = "non_json"
    THEN [exc |-> "JSONDecodeError", ret |-> outcome.resp, remote |-> 1, fallback |-> 0]
    ELSE [exc |-> "none", ret |-> outcome.resp, remote |-> 1, fallback |-> 0]

\* lines 180-237: the body of the try block; exc names the exception it raises
TryBody(post_title, post_text, outcome) ==
    IF outcome.kind = "no_api_key"
    THEN [exc |-> "none", ret |-> _mock_classify_post(post_title, post_text),
          remote |-> 0, fallback |-> 1]
    ELSE IF outcome.kind = "transport_error"
    THEN [exc |-> "APIConnectionError", ret |-> outcome.resp, remote |-> 1, fallback |-> 0]
    ELSE IF outcome.kind = "auth_failure"
    THEN [exc |-> "AuthenticationError", ret |-> outcome.resp, remote |-> 1, fallback |-> 0]
    ELSE IF outcome.kind = "non_json"
    THEN [exc |-> "JSONDecodeError", ret |-> outcome.resp, remote |-> 1, fallback |-> 0]
    ELSE [exc |-> "none", ret |-> outcome.resp, remote |-> 1, fallback |-> 0]

ExceptCatches_JsonOnly(exc) == exc = "JSONDecodeError"

\* line 239: except Exception
ExceptCatches(exc) == TRUE

\* lines 163-241.  raised: an exception leaves the call; value: the returned
\* JSON value; remote_calls, fallback_calls, rate_waits: what the call did.
classify_post(use_mock, post_title, post_text, outcome) ==
    IF use_mock
    THEN [raised |-> FALSE, value |-> _mock_classify_post(post_title, post_text),
          remote_calls |-> 0, fallback_calls |-> 1, rate_waits |-> 1]
    ELSE LET r == TryBody(post_title, post_text, outcome) IN
         IF r.exc = "none"
         THEN [raised |-> FALSE, value |-> r.ret,
               remote_calls |-> r.remote, fallback_calls |-> r.fallback, rate_waits |-> 1]
         ELSE IF ExceptCatches(r.exc)
         THEN [raised |-> FALSE, value |-> _mock_classify_post(post_title, post_text),
               remote_calls |-> r.remote, fallback_calls |-> r.fallback + 1, rate_waits |-> 1]
         ELSE [raised |-> TRUE, value |-> [t |-> "exc", v |-> r.exc],
               remote_calls |-> r.remote, fallback_calls |-> r.fallback, rate_waits |-> 1]

----------------------------------------------------------------------------
(* openai_classifier.py: classify_posts_dataframe *)

JNull == [t |-> "null", v |-> 0]

RECURSIVE JoinChars(_, _, _)
JoinChars(sep, s, i) ==
    IF i > Len(s) THEN ""
    ELSE IF i = Len(s) THEN SubSeq(s, i, i)
    ELSE SubSeq(s, i, i) \o sep \o JoinChars(sep, s, i + 1)

\* sep.join(x) for a JSON value x: a list of strings is joined, a string is
\* joined character by character, anything else is a TypeError
JoinRaises(x) == x.t \notin {"list", "str"}

JoinValue(sep, x) ==
    IF x.t = "list" THEN JStr(Join(sep, x.v)) ELSE JStr(JoinChars(sep, x.v, 1))

\* lines 257-260: the four columns, None in every row
WithEmptyColumns(row) ==
    [k \in DOMAIN row \cup {"categoria", "sentimento", "tópicos", "insights"} |->
        IF k \in {"categoria", "sentimento", "tópicos", "insights"} THEN JNull ELSE row[k]]

\* lines 264-272: one turn of the loop on row i.  b is the batch so far.
ClassifyRow(b, i, use_mock, outcome) ==
    LET row == b.df[i]
        c == classify_post(use_mock, row["title"], row["selftext"], outcome)
        called == [b EXCEPT !.calls = Append(@, [i |-> i, title |-> row["title"], text |-> row["selftext"]]),
                            !.remote_calls = @ + c.remote_calls,
                            !.fallback_calls = @ + c.fallback_calls,
                            !.rate_waits = @ + c.rate_waits]
    IN  IF c.raised
        THEN [called EXCEPT !.raised = TRUE]
        ELSE IF c.value.t # "obj"
        THEN [called EXCEPT !.raised = TRUE]          \* .get on a non-dict
        ELSE LET d == c.value.v
                 r1 == [row EXCEPT !["categoria"] = DictGet(d, "categoria", JStr(""))]
                 r2 == [r1 EXCEPT !["sentimento"] = DictGet(d, "sentimento", JStr(""))]
                 tp == DictGet(d, "tópicos", JList(<<>>))
                 r3 == [r2 EXCEPT !["tópicos"] = JoinValue(", ", tp)]
                 ins == DictGet(d, "insights", JList(<<>>))
                 r4 == [r3 EXCEPT !["insights"] = JoinValue("; ", ins)]
             IN  IF JoinRaises(tp)
                 THEN [called EXCEPT !.raised = TRUE,
                                     !.df = [@ EXCEPT ![i] = r2],
                                     !.writes = @ \o <<[i |-> i, col |-> "categoria"],
                                                       [i |-> i, col |-> "sentimento"]>>]
                 ELSE IF JoinRaises(ins)
                 THEN [called EXCEPT !.raised = TRUE,
                                     !.df = [@ EXCEPT ![i] = r3],
                                     !.writes = @ \o <<[i |-> i, col |-> "categoria"],
                                                       [i |-> i, col |-> "sentimento"],
                                                       [i |-> i, col |-> "tópicos"]>>]
                 ELSE [called EXCEPT !.df = [@ EXCEPT ![i] = r4],
                                     !.writes = @ \o <<[i |-> i, col |-> "categoria"],
                                                       [i |-> i, col |-> "sentimento"],
                                                       [i |-> i, col |-> "tópicos"],
                                                       [i |-> i, col |-> "insights"]>>]

RECURSIVE ClassifyRowsFrom_AbortOnFallback(_, _, _, _)
ClassifyRowsFrom_AbortOnFallback(b, i, use_mock, outcomes) ==
    IF i > Len(b.df) \/ b.raised \/ (~use_mock /\ b.fallback_calls > 0) THEN b
    ELSE ClassifyRowsFrom_AbortOnFallback(ClassifyRow(b, i, use_mock, outcomes[i]),
                                          i + 1, use_mock, outcomes)

RECURSIVE ClassifyRowsFrom_SkipLast(_, _, _, _)
ClassifyRowsFrom_SkipLast(b, i, use_mock, outcomes) ==
    IF i >= Len(b.df) \/ b.raised THEN b
    ELSE ClassifyRowsFrom_SkipLast(ClassifyRow(b, i, use_mock, outcomes[i]),
                                   i + 1, use_mock, outcomes)

RECURSIVE ClassifyRowsFrom(_, _, _, _)
ClassifyRowsFrom(b, i, use_mock, outcomes) ==
    IF i > Len(b.df) \/ b.raised THEN b
    ELSE ClassifyRowsFrom(ClassifyRow(b, i, use_mock, outcomes[i]), i + 1, use_mock, outcomes)

\* lines 243-274.  outcomes[i] is what the remote path meets on row i.
\* raised: an exception left the call; df: the frame as the loop left it;
\* calls: the classify_post calls in order; writes: the cells written in order.
classify_posts_dataframe(df, use_mock, outcomes) ==
    LET b0 == [raised |-> FALSE, df |-> df, calls |-> <<>>, writes |-> <<>>,
               remote_calls |-> 0, fallback_calls |-> 0, rate_waits |-> 0]
    IN  IF df = <<>> THEN b0
        ELSE ClassifyRowsFrom([b0 EXCEPT !.df = [i \in 1..Len(df) |-> WithEmptyColumns(df[i])]],
                              1, use_mock, outcomes)

----------------------------------------------------------------------------
(* reddit_api.py: format_posts *)

SecondsPerDay == 86400

MaxBody == 500

\* datetime.fromtimestamp(ts).strftime('%Y-%m-%d %H:%M:%S'): the date and the
\* time of day, as two fields of the rendered string
FormatDate(ts) == [ymd |-> ts \div SecondsPerDay, hms |-> ts % SecondsPerDay]

\* lines 284-298 with the marker added from the limit on
FormatPost_MarkerAtLimit(post) ==
    LET selftext == DictGet(post, "selftext", "") IN
    [id |-> DictGet(post, "id", ""),
     title |-> DictGet(post, "title", ""),
     selftext |-> SubSeq(selftext, 1, IF Len(selftext) < MaxBody THEN Len(selftext) ELSE MaxBody)
                  \o (IF Len(selftext) >= MaxBody THEN "..." ELSE ""),
     author |-> DictGet(post, "author", ""),
     subreddit |-> DictGet(post, "subreddit", ""),
     score |-> DictGet(post, "score", 0),
     num_comments |-> DictGet(post, "num_comments", 0),
     created_date |-> FormatDate(DictGet(post, "created_utc", 0)),
     url |-> DictGet(post, "full_link", ""),
     is_self |-> DictGet(post, "is_self", TRUE)]

\* lines 284-298: one formatted post
FormatPost(post) ==
    LET selftext == DictGet(post, "selftext", "") IN
    [id |-> DictGet(post, "id", ""),
     title |-> DictGet(post, "title", ""),
     selftext |-> SubSeq(selftext, 1, IF Len(selftext) < MaxBody THEN Len(selftext) ELSE MaxBody)
                  \o (IF Len(selftext) > MaxBody THEN "..." ELSE ""),
     author |-> DictGet(post, "author", ""),
     subreddit |-> DictGet(post, "subreddit", ""),
     score |-> DictGet(post, "score", 0),
     num_comments |-> DictGet(post, "num_comments", 0),
     created_date |-> FormatDate(DictGet(post, "created_utc", 0)),
     url |-> DictGet(post, "full_link", ""),
     is_self |-> DictGet(post, "is_self", TRUE)]

format_posts_dropping(posts) ==
    LET kept == SelectSeq(posts, LAMBDA p : "id" \in DOMAIN p)
    IN  [i \in 1..Len(kept) |-> FormatPost(kept[i])]

\* lines 268-301: the frame is the sequence of its rows; pd.DataFrame() is <<>>
format_posts(posts) == [i \in 1..Len(posts) |-> FormatPost(posts[i])]

----------------------------------------------------------------------------
(* The synthetic corpus: data/mock_reddit_data.json, topic -> posts, each    *)
(* topic's posts newest first (reddit_api.py:184).  The file is read on      *)
(* every search and written only when absent, so its posts are input data:   *)
(* titles and bodies follow the generator's templates, with one link post    *)
(* (empty body) and one ten-character body beside them.                      *)

Day(n) == n * SecondsPerDay

\* the moment the searches of the model are evaluated at (datetime.now())
Now == Day(20000) + 3600

RawPost(id, title, selftext, subreddit, age_days, is_self) ==
    [id |-> id, title |-> title, selftext |-> selftext, author |-> "code_master",
     subreddit |-> subreddit, score |-> 42, num_comments |-> 7,
     created_utc |-> Now - Day(age_days),
     full_link |-> "https://www.reddit.com/r/" \o subreddit \o "/comments/" \o id \o "/",
     is_self |-> is_self]

py1 ==
    RawPost("py0001", "Dúvida sobre python: como resolver este problema?",
            "Estou trabalhando com python e encontrei um problema que não consigo resolver.",
            "python", 3, TRUE)

py2 == RawPost("py0002", "Recursos recomendados para python", "", "learnprogramming", 7, FALSE)

ai1 ==
    RawPost("ai0001", "Preciso de ajuda com ai para um projeto",
            "Tenho um projeto que envolve ai e preciso de conselhos.", "artificial", 40, TRUE)

ai2 == RawPost("ai0002", "Novidades em ai que você precisa conhecer", "dez letras", "Python", 95, TRUE)

wd1 ==
    RawPost("wd0001", "Tutorial: guia de webdev para iniciantes",
            "Quais são as tendências atuais em webdev? O que devo aprender?", "webdev", 1, TRUE)

mock_data == ("python" :> <<py1, py2>>) @@ ("webdev" :> <<wd1>>) @@ ("ai" :> <<ai1, ai2>>)

\* the topics in the order the JSON object lists them
mock_topics == <<"python", "webdev", "ai">>

----------------------------------------------------------------------------
(* reddit_api.py: the lookup in the synthetic corpus *)

\* x placed after every element at least as new: list.sort(key=created_utc,
\* reverse=True) is stable
RECURSIVE InsertNewestFirst(_, _)
InsertNewestFirst(sorted, x) ==
    IF sorted = <<>> THEN <<x>>
    ELSE IF Head(sorted)["created_utc"] >= x["created_utc"]
    THEN <<Head(sorted)>> \o InsertNewestFirst(Tail(sorted), x)
    ELSE <<x>> \o sorted

RECURSIVE SortNewestFirst(_)
SortNewestFirst(l) ==
    IF l = <<>> THEN <<>>
    ELSE InsertNewestFirst(SortNewestFirst(SubSeq(l, 1, Len(l) - 1)), l[Len(l)])

PostMatches(post, q) ==
    Contains(Lower(post["title"]), q) \/ Contains(Lower(post["selftext"]), q)

\* lines 221-232: the scan of the topics, in the order of the file
RECURSIVE ScanTopics(_, _)
ScanTopics(i, q) ==
    IF i > Len(mock_topics) THEN <<>>
    ELSE LET topic == mock_topics[i]
             posts == mock_data[topic]
         IN  (IF Contains(topic, q) THEN posts
              ELSE SelectSeq(posts, LAMBDA post : PostMatches(post, q)))
             \o ScanTopics(i + 1, q)

\* results[:limit]
Take(l, n) == SubSeq(l, 1, IF Len(l) < n THEN Len(l) ELSE n)

\* lines 217-232 without the test of line 217: every query is scanned for
_search_mock_data_ScanOnly(query, subreddit, limit) ==
    LET q == Lower(query)
        results == ScanTopics(1, q)
        scoped == IF subreddit # None /\ Val(subreddit) # ""
                  THEN SelectSeq(results,
                                 LAMBDA post : Lower(post["subreddit"]) = Lower(Val(subreddit)))
                  ELSE results
    IN  Take(SortNewestFirst(scoped), limit)

_search_mock_data_Unsorted(query, subreddit, limit) ==
    LET q == Lower(query)
        results == IF q \in DOMAIN mock_data THEN mock_data[q] ELSE ScanTopics(1, q)
        scoped == IF subreddit # None /\ Val(subreddit) # ""
                  THEN SelectSeq(results,
                                 LAMBDA post : Lower(post["subreddit"]) = Lower(Val(subreddit)))
                  ELSE results
    IN  Take(scoped, limit)

\* lines 202-242.  subreddit is None or Some(name).
_search_mock_data(query, subreddit, limit) ==
    LET q == Lower(query)
        results == IF q \in DOMAIN mock_data THEN mock_data[q] ELSE ScanTopics(1, q)
        scoped == IF subreddit # None /\ Val(subreddit) # ""
                  THEN SelectSeq(results,
                                 LAMBDA post : Lower(post["subreddit"]) = Lower(Val(subreddit)))
                  ELSE results
    IN  Take(SortNewestFirst(scoped), limit)

\* lines 244-266 with a live branch that has nothing to return
search_posts_LiveEmpty(use_mock_data, query, subreddit, limit) ==
    IF use_mock_data
    THEN _search_mock_data(query, subreddit, limit)
    ELSE <<>>

\* lines 244-266: both branches serve the synthetic corpus
search_posts(use_mock_data, query, subreddit, limit) ==
    IF use_mock_data
    THEN _search_mock_data(query, subreddit, limit)
    ELSE _search_mock_data(query, subreddit, limit)

\* load_apis (app.py:105): the Source the application constructs
AppUseMockData == FALSE

\* lines 303-316
search_and_format(query, subreddit, limit) ==
    format_posts(search_posts(AppUseMockData, query, subreddit, limit))

----------------------------------------------------------------------------
(* app.py: search_reddit *)

\* pd.to_datetime on the rendered creation date
ParseDate(d) == d.ymd * SecondsPerDay + d.hms

\* line 175: the parsed column added to the frame being filtered
WithDatetime(row) ==
    [k \in DOMAIN row \cup {"datetime"} |->
        IF k = "datetime" THEN ParseDate(row["created_date"]) ELSE row[k]]

DateFilter_FailClosed(filtered_df, days_ago, now, parse_fails) ==
    IF parse_fails THEN <<>>
    ELSE LET with_dt == [i \in 1..Len(filtered_df) |-> WithDatetime(filtered_df[i])]
             filter_date == now - Day(Val(days_ago))
         IN  SelectSeq(with_dt, LAMBDA row : row["datetime"] >= filter_date)

\* lines 170-186.  parse_fails: pd.to_datetime raises on the column.
DateFilter(filtered_df, days_ago, now, parse_fails) ==
    IF parse_fails THEN filtered_df
    ELSE LET with_dt == [i \in 1..Len(filtered_df) |-> WithDatetime(filtered_df[i])]
             filter_date == now - Day(Val(days_ago))
         IN  SelectSeq(with_dt, LAMBDA row : row["datetime"] >= filter_date)

MinBody == 10

TextFilter_OffByOne(filtered_df) ==
    LET kept == SelectSeq(filtered_df, LAMBDA row : Len(row["selftext"]) > MinBody)
    IN  IF kept = <<>> THEN kept ELSE Tail(kept)

TextFilter_AtLeast(filtered_df) ==
    SelectSeq(filtered_df, LAMBDA row : Len(row["selftext"]) >= MinBody)

\* line 191
TextFilter(filtered_df) == SelectSeq(filtered_df, LAMBDA row : Len(row["selftext"]) > MinBody)

\* Series.str on the categoria column: pandas refuses the accessor
\* (AttributeError) when the column has values and all of them are numbers;
\* a value that is not a string becomes NaN and compares unequal
StrAccessorRaises(filtered_df) ==
    LET vals == {filtered_df[i]["categoria"] : i \in 1..Len(filtered_df)}
        nonnull == {x \in vals : x.t # "null"}
    IN  nonnull # {} /\ \A x \in nonnull : x.t = "num"

TypeFilter_CaseSensitive(filtered_df, post_type) ==
    SelectSeq(filtered_df,
              LAMBDA row : row["categoria"].t = "str" /\ row["categoria"].v = post_type)

\* line 197
TypeFilter(filtered_df, post_type) ==
    SelectSeq(filtered_df,
              LAMBDA row : row["categoria"].t = "str"
                           /\ Lower(row["categoria"].v) = Lower(post_type))

NoNotice == [kind |-> "none", count |-> 0]

SearchResult(raised, ret, notice, snapshot, fetched, batch, filtered, applied, date_error, steps) ==
    [raised |-> raised, ret |-> ret, notice |-> notice, snapshot |-> snapshot,
     fetched |-> fetched, classify_calls |-> Len(batch.calls),
     remote_calls |-> batch.remote_calls, rate_waits |-> batch.rate_waits,
     filtered |-> filtered, filters_applied |-> applied, date_error |-> date_error,
     steps |-> steps]

NoBatch ==
    [raised |-> FALSE, df |-> <<>>, calls |-> <<>>, writes |-> <<>>,
     remote_calls |-> 0, fallback_calls |-> 0, rate_waits |-> 0]

FilterOutcome_ReturnsNone(df, filtered_df, filters_applied) ==
    IF filtered_df = <<>>
    THEN [ret |-> None, notice |-> [kind |-> "no_results", count |-> 0]]
    ELSE [ret |-> Some(filtered_df), notice |-> NoNotice]

FilterOutcome_ReturnsFiltered(df, filtered_df, filters_applied) ==
    IF filtered_df = <<>> /\ filters_applied
    THEN [ret |-> Some(filtered_df), notice |-> [kind |-> "reverted", count |-> Len(df)]]
    ELSE IF filtered_df = <<>>
    THEN [ret |-> None, notice |-> [kind |-> "no_results", count |-> 0]]
    ELSE [ret |-> Some(filtered_df), notice |-> NoNotice]

\* lines 199-207: what is returned and which warning is shown (original_count
\* is len(df), line 162)
FilterOutcome(df, filtered_df, filters_applied) ==
    IF filtered_df = <<>> /\ filters_applied
    THEN [ret |-> Some(df), notice |-> [kind |-> "reverted", count |-> Len(df)]]
    ELSE IF filtered_df = <<>>
    THEN [ret |-> None, notice |-> [kind |-> "no_results", count |-> 0]]
    ELSE [ret |-> Some(filtered_df), notice |-> NoNotice]

AllSteps == <<"fetch", "format", "classify_all", "snapshot", "filter">>

\* lines 161-207 with line 163 moved after the predicates: the frame stored is
\* the filtered one
FilterStep_SnapshotAfterFilter(df, batch, days_ago, only_text, post_type, now, parse_fails) ==
    LET date_on == days_ago # None /\ Val(days_ago) # 0
        type_on == post_type # None /\ Val(post_type) # "" /\ Val(post_type) # "Todos os tipos"
        f1 == IF date_on THEN DateFilter(df, days_ago, now, parse_fails) ELSE df
        f2 == IF only_text THEN TextFilter(f1) ELSE f1
        filters_applied == date_on \/ only_text \/ type_on
        date_error == date_on /\ parse_fails
        late == <<"fetch", "format", "classify_all", "filter", "snapshot">>
    IN  IF type_on /\ StrAccessorRaises(f2)
        THEN SearchResult(TRUE, None, NoNotice, None, Len(df), batch, f2,
                          filters_applied, date_error, <<"fetch", "format", "classify_all", "filter">>)
        ELSE LET filtered_df == IF type_on THEN TypeFilter(f2, Val(post_type)) ELSE f2
                 o == FilterOutcome(df, filtered_df, filters_applied)
             IN  SearchResult(FALSE, o.ret, o.notice, Some(filtered_df), Len(df), batch,
                              filtered_df, filters_applied, date_error, late)

\* lines 161-207, from the snapshot on: the three predicates and the revert
FilterStep(df, batch, days_ago, only_text, post_type, now, parse_fails) ==
    LET date_on == days_ago # None /\ Val(days_ago) # 0
        type_on == post_type # None /\ Val(post_type) # "" /\ Val(post_type) # "Todos os tipos"
        f1 == IF date_on THEN DateFilter(df, days_ago, now, parse_fails) ELSE df
        f2 == IF only_text THEN TextFilter(f1) ELSE f1
        filters_applied == date_on \/ only_text \/ type_on
        date_error == date_on /\ parse_fails
    IN  IF type_on /\ StrAccessorRaises(f2)
        THEN SearchResult(TRUE, None, NoNotice, Some(df), Len(df), batch, f2,
                          filters_applied, date_error, AllSteps)
        ELSE LET filtered_df == IF type_on THEN TypeFilter(f2, Val(post_type)) ELSE f2
                 o == FilterOutcome(df, filtered_df, filters_applied)
             IN  SearchResult(FALSE, o.ret, o.notice, Some(df), Len(df), batch, filtered_df,
                              filters_applied, date_error, AllSteps)

search_reddit_NoEmptyCheck(query, subreddit, limit, days_ago, only_text, post_type, use_mock, outcomes, now, parse_fails) ==
    LET fetched == search_and_format(query, subreddit, limit)
        batch == classify_posts_dataframe(fetched, use_mock, outcomes)
    IN  IF batch.raised
        THEN SearchResult(TRUE, None, NoNotice, None, Len(fetched), batch, <<>>, FALSE, FALSE,
                          <<"fetch", "format", "classify_all">>)
        ELSE FilterStep(batch.df, batch, days_ago, only_text, post_type, now, parse_fails)

\* lines 147-207.  use_mock: the classifier's mode; outcomes[i]: what its remote
\* path meets on row i; now: datetime.now() at line 178.
\* raised: an exception left the call; ret: the returned frame or None;
\* notice: the st.warning shown; snapshot: the frame stored in
\* st.session_state.original_results at line 163, None when the line is not reached.
search_reddit(query, subreddit, limit, days_ago, only_text, post_type, use_mock, outcomes, now, parse_fails) ==
    LET fetched == search_and_format(query, subreddit, limit) IN
    IF fetched = <<>>
    THEN SearchResult(FALSE, None, [kind |-> "no_results", count |-> 0], None, 0, NoBatch,
                      <<>>, FALSE, FALSE, <<"fetch", "format">>)
    ELSE LET batch == classify_posts_dataframe(fetched, use_mock, outcomes) IN
         IF batch.raised
         THEN SearchResult(TRUE, None, NoNotice, None, Len(fetched), batch, <<>>, FALSE, FALSE,
                           <<"fetch", "format", "classify_all">>)
         ELSE FilterStep(batch.df, batch, days_ago, only_text, post_type, now, parse_fails)

----------------------------------------------------------------------------
(* Sample inputs of the classifier *)

SampleTitles == KnownTitles \ {"Preciso de ajuda com ai para um projeto"}

SampleTexts == KnownTexts \ {"Tenho um projeto que envolve ai e preciso de conselhos."}

\* JSON values the remote model may answer with
R_conforming ==
    JObj(ClassificationDict("Tutorial", "Positivo", <<"Programação", "Carreira">>,
                            <<"Post didático.">>))

R_missing_key == JObj("categoria" :> JStr("Pergunta"))

R_wrong_type ==
    JObj(("categoria" :> JNum(5)) @@ ("sentimento" :> JStr("Neutro"))
         @@ ("tópicos" :> JList(<<"Mobile">>)) @@ ("insights" :> JList(<<"Sem texto.">>)))

R_null_topics ==
    JObj(("categoria" :> JStr("Notícia")) @@ ("sentimento" :> JStr("Neutro"))
         @@ ("tópicos" :> [t |-> "null", v |-> 0]) @@ ("insights" :> JList(<<"Sem texto.">>)))

R_non_object == JList(<<"Pergunta">>)

SampleResponses == {R_conforming, R_missing_key, R_wrong_type, R_null_topics, R_non_object}

RemoteOutcomes ==
    {Failure(k) : k \in RemoteFailures} \cup {Answer(r) : r \in SampleResponses}

----------------------------------------------------------------------------
(* The session before the first interaction (app.py:93-100) *)

SessionInit ==
    /\ search_history = <<>>
    /\ current_results = None
    /\ current_summary = None
    /\ original_results = None

NoCall == [op |-> "none"]

----------------------------------------------------------------------------
(* SpecClassify: one classify_post call on every sample input *)

ClassifyInputs ==
    { [op |-> "classify_post", use_mock |-> TRUE, title |-> t, text |-> x, outcome |-> NoOutcome] :
        t \in SampleTitles, x \in SampleTexts }
    \cup
    { [op |-> "classify_post", use_mock |-> FALSE, title |-> t, text |-> x, outcome |-> o] :
        t \in SampleTitles, x \in SampleTexts, o \in RemoteOutcomes }

InitClassify ==
    /\ SessionInit
    /\ pc = "classify_post"
    /\ inp \in ClassifyInputs
    /\ out = NoCall

ClassifyCall ==
    /\ pc = "classify_post"
    /\ out' = classify_post(inp.use_mock, inp.title, inp.text, inp.outcome)
    /\ pc' = "done"
    /\ UNCHANGED <<inp, session>>

NextClassify == ClassifyCall

SpecClassify == InitClassify /\ [][NextClassify]_vars

----------------------------------------------------------------------------
(* SpecFormat: one format_posts call on every sequence of sample raw posts *)

MaxPosts == 3

\* s written n times
RECURSIVE Repeat(_, _)
Repeat(s, n) == IF n = 0 THEN "" ELSE s \o Repeat(s, n - 1)

\* a body of exactly 500 characters and one of 503
Body500 == Repeat("ab", 250)

Body503 == Body500 \o "cde"

\* raw posts as a source may hand them over: complete, with fields missing, or
\* with a body at or beyond the limit of line 290
FormatSamples ==
    { py1, ai2,
      [id |-> "lg0500", title |-> "Corpo no limite", selftext |-> Body500, created_utc |-> Day(6)],
      [id |-> "lg0503", title |-> "Corpo longo", selftext |-> Body503, created_utc |-> Day(7)],
      [id |-> "zz0009", created_utc |-> Day(3)],
      [title |-> "Sem identificador", selftext |-> "corpo"],
      [id |-> "pr0001", title |-> "Link relativo", created_utc |-> Day(5),
       full_link |-> "/r/python/comments/pr0001/"] }

SeqsUpTo(S, n) == UNION { [1..k -> S] : k \in 0..n }

InitFormat ==
    /\ SessionInit
    /\ pc = "format_posts"
    /\ inp \in { [op |-> "format_posts", posts |-> ps] : ps \in SeqsUpTo(FormatSamples, MaxPosts) }
    /\ out = NoCall

FormatCall ==
    /\ pc = "format_posts"
    /\ out' = [df |-> format_posts(inp.posts)]
    /\ pc' = "done"
    /\ UNCHANGED <<inp, session>>

NextFormat == FormatCall

SpecFormat == InitFormat /\ [][NextFormat]_vars

----------------------------------------------------------------------------
(* SpecFetch: one search_posts call on every sample query, community and     *)
(* limit, by a Source of either mode                                         *)

FetchQueries == {"python", "AI", "p", "guia", "zzzznoexist"}

FetchSubreddits == {None, Some("python"), Some("PYTHON"), Some("webdev")}

FetchLimits == {1, 2, 3, 10}

InitFetch ==
    /\ SessionInit
    /\ pc = "search_posts"
    /\ inp \in { [op |-> "search_posts", use_mock_data |-> um, query |-> q,
                  subreddit |-> sr, limit |-> lim]
                 : um \in BOOLEAN, q \in FetchQueries, sr \in FetchSubreddits,
                   lim \in FetchLimits }
    /\ out = NoCall

FetchCall ==
    /\ pc = "search_posts"
    /\ out' = [posts |-> search_posts(inp.use_mock_data, inp.query, inp.subreddit, inp.limit)]
    /\ pc' = "done"
    /\ UNCHANGED <<inp, session>>

NextFetch == FetchCall

SpecFetch == InitFetch /\ [][NextFetch]_vars

----------------------------------------------------------------------------
(* SpecBatch: one classify_posts_dataframe call on every frame of at most    *)
(* MaxBatch formatted posts, with every remote outcome on every row          *)

MaxBatch == 2

BatchSamples == {py1, ai1}

\* what the remote path may meet on a row of the batch
BatchOutcomes ==
    {Failure("auth_failure"), Failure("transport_error"),
     Answer(R_conforming), Answer(R_missing_key), Answer(R_non_object)}

BatchInputs ==
    UNION { { [op |-> "classify_posts_dataframe", df |-> format_posts(ps),
               use_mock |-> TRUE, outcomes |-> [i \in 1..Len(ps) |-> NoOutcome]] }
            \cup
            { [op |-> "classify_posts_dataframe", df |-> format_posts(ps),
               use_mock |-> FALSE, outcomes |-> os] : os \in [1..Len(ps) -> BatchOutcomes] }
            : ps \in SeqsUpTo(BatchSamples, MaxBatch) }

\* the call on each input, with what it yields
BatchRuns ==
    { [in |-> i, res |-> classify_posts_dataframe(i.df, i.use_mock, i.outcomes)]
      : i \in BatchInputs }

InitBatch ==
    /\ SessionInit
    /\ pc = "idle"
    /\ inp = NoCall
    /\ out = NoCall

BatchCall ==
    \E run \in BatchRuns :
        /\ pc = "idle"
        /\ inp' = run.in
        /\ out' = run.res
        /\ pc' = "done"
        /\ UNCHANGED session

NextBatch == BatchCall

SpecBatch == InitBatch /\ [][NextBatch]_vars

----------------------------------------------------------------------------
(* SpecSearch: one search_reddit call on every sample query and option       *)

SearchQueries == {"python", "AI", "projeto", "zzzznoexist"}

SubredditOptions == {None, Some("python")}

LimitOptions == {1, 10}

\* the sidebar's date options (app.py:288-294)
DaysOptions == {None, Some(7), Some(30), Some(90)}

\* POST_TYPES entries (app.py:124-127) and what a caller may pass instead
PostTypeOptions == {None, Some("Todos os tipos"), Some("Pergunta"), Some("tutorial")}

\* what the classifier's remote path may meet during a search
SearchOutcomes ==
    {Failure("transport_error"), Answer(R_conforming), Answer(R_wrong_type)}

OutcomeChoices(use_mock, n) ==
    IF use_mock THEN {[i \in 1..n |-> NoOutcome]} ELSE [1..n -> SearchOutcomes]

SearchInputs ==
    UNION { { [op |-> "search_reddit", query |-> q, subreddit |-> sr, limit |-> lim,
               days_ago |-> d, only_text |-> ot, post_type |-> pt, use_mock |-> um,
               outcomes |-> os, parse_fails |-> pf]
              : ot \in BOOLEAN, pt \in PostTypeOptions,
                os \in OutcomeChoices(um, Len(search_and_format(q, sr, lim))),
                pf \in (IF d = None THEN {FALSE} ELSE BOOLEAN) }
            : q \in SearchQueries, sr \in SubredditOptions, lim \in LimitOptions,
              um \in BOOLEAN, d \in DaysOptions }

\* the call on each input, with what it yields
SearchRuns ==
    { [in |-> i,
       res |-> search_reddit(i.query, i.subreddit, i.limit, i.days_ago, i.only_text,
                             i.post_type, i.use_mock, i.outcomes, Now, i.parse_fails)]
      : i \in SearchInputs }

InitSearch ==
    /\ SessionInit
    /\ pc = "idle"
    /\ inp = NoCall
    /\ out = NoCall

SearchCall ==
    \E run \in SearchRuns :
        /\ pc = "idle"
        /\ inp' = run.in
        /\ out' = run.res
        /\ pc' = "done"
        /\ UNCHANGED session

NextSearch == SearchCall

SpecSearch == InitSearch /\ [][NextSearch]_vars

----------------------------------------------------------------------------
(* SpecFilter: the filter step of search_reddit (lines 161-207) on every     *)
(* classified set of at most MaxRows posts under every option combination    *)

MaxRows == 3

\* the corpus as classify_posts_dataframe leaves it, one row whose category
\* is the number a non-conforming answer gave and one whose category a remote
\* answer spelled in capitals
ClassifiedSamples ==
    LET df == classify_posts_dataframe(format_posts(<<wd1, py1, py2, ai1, ai2>>), TRUE,
                                       [k \in 1..5 |-> NoOutcome]).df
    IN  df \o <<[df[2] EXCEPT !["id"] = "py0003", !["categoria"] = JNum(5)],
                [df[1] EXCEPT !["id"] = "wd0002", !["categoria"] = JStr("TUTORIAL")]>>

\* the rows of l at the positions of S, in the order of l
RowsAt(l, S) ==
    LET idx == SelectSeq([k \in 1..Len(l) |-> k], LAMBDA k : k \in S)
    IN  [k \in 1..Len(idx) |-> l[idx[k]]]

FilterPostTypes == PostTypeOptions \cup {Some("discussão")}

FilterInputs ==
    UNION { { [op |-> "filter", df |-> RowsAt(ClassifiedSamples, S), days_ago |-> d,
               only_text |-> ot, post_type |-> pt, parse_fails |-> pf]
              : ot \in BOOLEAN, pt \in FilterPostTypes,
                pf \in (IF d = None THEN {FALSE} ELSE BOOLEAN) }
            : S \in {T \in SUBSET (1..Len(ClassifiedSamples)) : Cardinality(T) \in 1..MaxRows},
              d \in DaysOptions }

\* the step on each input, with what it yields
FilterRuns ==
    { [in |-> i,
       res |-> FilterStep(i.df, NoBatch, i.days_ago, i.only_text, i.post_type, Now,
                          i.parse_fails)]
      : i \in FilterInputs }

InitFilter ==
    /\ SessionInit
    /\ pc = "idle"
    /\ inp = NoCall
    /\ out = NoCall

FilterCall ==
    \E run \in FilterRuns :
        /\ pc = "idle"
        /\ inp' = run.in
        /\ out' = run.res
        /\ pc' = "done"
        /\ UNCHANGED session

NextFilter == FilterCall

SpecFilter == InitFilter /\ [][NextFilter]_vars

----------------------------------------------------------------------------
(* app.py: the link analysis *)

\* lines 130-132
is_url(text) == StartsWith(text, "http://") \/ StartsWith(text, "https://")

----------------------------------------------------------------------------
(* firecrawl_summarizer.py: the simulated summary and summarize_url *)

\* the first position at or after i where k occurs in s, 0 when there is none
RECURSIVE FindFrom(_, _, _)
FindFrom(s, k, i) ==
    IF i + Len(k) - 1 > Len(s) THEN 0
    ELSE IF SubSeq(s, i, i + Len(k) - 1) = k THEN i
    ELSE FindFrom(s, k, i + 1)

\* urllib.parse.urlparse(url): the network location and the path of a URL with
\* a scheme; a bracket without its partner in the network location is a
\* ValueError (Invalid IPv6 URL)
urlparse(url) ==
    LET sep == FindFrom(url, "://", 1)
        rest == IF sep = 0 THEN "" ELSE SubSeq(url, sep + 3, Len(url))
        slash == FindFrom(rest, "/", 1)
        netloc == IF slash = 0 THEN rest ELSE SubSeq(rest, 1, slash - 1)
        path == IF sep = 0 THEN url ELSE IF slash = 0 THEN "" ELSE SubSeq(rest, slash, Len(rest))
    IN  [raised |-> Contains(netloc, "[") # Contains(netloc, "]"),
         netloc |-> netloc, path |-> path]

\* lines 69-73: group 1 of r"/r/([^/]+)/comments/([^/]+)" at the first /r/
\* of the path, "" when the pattern does not match there
RedditCommunity(path) ==
    LET r == FindFrom(path, "/r/", 1)
        after == IF r = 0 THEN "" ELSE SubSeq(path, r + 3, Len(path))
        slash == FindFrom(after, "/", 1)
        tail == IF slash = 0 THEN "" ELSE SubSeq(after, slash, Len(after))
    IN  IF r # 0 /\ slash > 1 /\ StartsWith(tail, "/comments/")
           /\ Len(tail) > Len("/comments/") /\ SubSeq(tail, 11, 11) # "/"
        THEN SubSeq(after, 1, slash - 1)
        ELSE ""

\* lines 117-156.  pick.title: the position random.choice draws
_generate_mock_title(category, pick) ==
    LET
        titles ==
            ("programação" :> <<"Como implementar algoritmos de ordenação em Python",
                                "Melhores práticas para desenvolvimento web em 2025",
                                "Guia completo de React para iniciantes",
                                "Otimizando consultas SQL para melhor performance",
                                "Introdução ao desenvolvimento de aplicativos móveis com Flutter">>)
            @@ ("tecnologia" :> <<"O futuro da inteligência artificial em 2025",
                                  "Como a computação quântica está mudando o mundo",
                                  "Tendências de cibersegurança que você precisa conhecer",
                                  "Impacto da realidade aumentada no cotidiano",
                                  "Blockchain além das criptomoedas: aplicações práticas">>)
            @@ ("atualidades" :> <<"Novas políticas de tecnologia anunciadas pelo governo",
                                   "Como a tecnologia está transformando a educação pós-pandemia",
                                   "Grandes empresas de tecnologia anunciam colaboração inédita",
                                   "Impacto ambiental da indústria tecnológica: novos estudos",
                                   "Avanços recentes em energia renovável e sustentabilidade">>)
            @@ ("geral" :> <<"Guia completo para iniciantes",
                             "Dicas e truques que você precisa conhecer",
                             "Análise detalhada e opiniões de especialistas",
                             "Comparativo das melhores opções em 2025",
                             "O que você precisa saber antes de começar">>)
    IN  titles[IF category \in DOMAIN titles THEN category ELSE "geral"][pick.title]

\* lines 75-91
MockSummaryTitle(domain, is_reddit, subreddit, pick) ==
    IF is_reddit
    THEN IF subreddit # ""
         THEN "Discussão no r/" \o subreddit \o ": " \o _generate_mock_title(subreddit, pick)
         ELSE "Post no Reddit sobre " \o _generate_mock_title("geral", pick)
    ELSE IF Contains(domain, "github.com")
    THEN "Repositório GitHub: " \o _generate_mock_title("programação", pick)
    ELSE IF Contains(domain, "medium.com")
    THEN "Artigo no Medium sobre " \o _generate_mock_title("tecnologia", pick)
    ELSE IF Contains(domain, "stackoverflow.com")
    THEN "Pergunta no Stack Overflow sobre " \o _generate_mock_title("programação", pick)
    ELSE IF Contains(domain, "news") \/ Contains(domain, "blog")
    THEN "Notícia: " \o _generate_mock_title("atualidades", pick)
    ELSE "Página Web: " \o _generate_mock_title("geral", pick)

\* the community lists of lines 200, 261, 263 and 265
Communities ==
    [programming |-> {"programming", "python", "webdev", "javascript"},
     tech |-> {"technology", "futurology", "gadgets"},
     business |-> {"startups", "entrepreneur", "business"}]

\* l from its position k on, the positions before k after the others: the
\* order a shuffle (or the iteration of a set) may leave
Rotated(l, k) ==
    [j \in 1..Len(l) |-> l[((j + k - 2) % Len(l)) + 1]]

\* lines 158-223; each paragraph of the lists (lines 163-196) by its opening
\* words.  pick.shuffle, pick.num_paragraphs: what random.shuffle and
\* random.randint(2, 3) draw
_generate_mock_summary(domain, is_reddit, subreddit, pick) ==
    LET
        reddit_paragraphs ==
            <<"Esta discussão no Reddit aborda questões", "O post original apresenta uma pergunta",
              "Vários usuários compartilham recursos úteis", "Há um consenso geral sobre certas práticas">>
        tech_paragraphs ==
            <<"Este artigo explora as tendências emergentes", "São apresentados dados e estatísticas recentes",
              "O texto discute os desafios éticos e sociais", "Por fim, são oferecidas recomendações">>
        programming_paragraphs ==
            <<"Este recurso oferece um guia detalhado", "São abordados conceitos fundamentais",
              "O autor compartilha insights valiosos", "Há uma seção dedicada a ferramentas">>
        news_paragraphs ==
            <<"Esta notícia relata desenvolvimentos recentes", "São apresentados dados econômicos",
              "O artigo contextualiza esses eventos", "Diferentes pontos de vista são apresentados">>
        general_paragraphs ==
            <<"Este conteúdo oferece uma visão abrangente", "São apresentados exemplos práticos",
              "O autor aborda diferentes perspectivas", "A conclusão sintetiza os principais pontos">>
        paragraphs ==
            IF is_reddit
            THEN IF subreddit # "" /\ Lower(subreddit) \in Communities.programming
                 THEN reddit_paragraphs \o SubSeq(programming_paragraphs, 1, 2)
                 ELSE reddit_paragraphs
            ELSE IF Contains(domain, "github.com") \/ Contains(domain, "stackoverflow.com")
            THEN programming_paragraphs
            ELSE IF Contains(domain, "news") \/ Contains(domain, "blog")
            THEN news_paragraphs
            ELSE IF Contains(domain, "tech") \/ Contains(domain, "technology")
            THEN tech_paragraphs
            ELSE general_paragraphs
    IN  Join("\n\n", SubSeq(Rotated(paragraphs, pick.shuffle), 1, pick.num_paragraphs))

\* list(set(l)): each element once
RECURSIVE Distinct(_, _)
Distinct(l, i) ==
    IF i > Len(l) THEN <<>>
    ELSE IF \E j \in 1..(i - 1) : l[j] = l[i] THEN Distinct(l, i + 1)
    ELSE <<l[i]>> \o Distinct(l, i + 1)

Min(a, b) == IF a < b THEN a ELSE b

\* lines 225-281.  pick.shuffle, pick.num_topics: what random.sample and
\* random.randint(3, 5) draw
_generate_mock_topics(domain, is_reddit, subreddit, pick) ==
    LET
        tech_topics ==
            <<"Inteligência Artificial", "Machine Learning", "Computação em Nuvem",
              "Cibersegurança", "Big Data", "Internet das Coisas (IoT)",
              "Blockchain", "Realidade Virtual", "Realidade Aumentada",
              "5G", "Computação Quântica", "Automação", "Robótica">>
        programming_topics ==
            <<"Desenvolvimento Web", "Desenvolvimento Mobile", "DevOps",
              "Arquitetura de Software", "Padrões de Design", "Testes Automatizados",
              "Linguagens de Programação", "Frameworks", "APIs",
              "Bancos de Dados", "Microserviços", "Contêineres", "CI/CD">>
        business_topics ==
            <<"Empreendedorismo", "Startups", "Modelos de Negócio",
              "Marketing Digital", "E-commerce", "Gestão de Projetos",
              "Produtividade", "Liderança", "Transformação Digital",
              "Análise de Dados", "Experiência do Cliente", "Inovação">>
        general_topics ==
            <<"Tecnologia", "Inovação", "Tendências", "Melhores Práticas",
              "Tutoriais", "Guias", "Análises", "Comparativos",
              "Dicas e Truques", "Recursos", "Ferramentas", "Comunidade">>
        extra ==
            IF is_reddit
            THEN IF subreddit # "" /\ Lower(subreddit) \in Communities.programming
                 THEN programming_topics
                 ELSE IF subreddit # "" /\ Lower(subreddit) \in Communities.tech
                 THEN tech_topics
                 ELSE IF subreddit # "" /\ Lower(subreddit) \in Communities.business
                 THEN business_topics
                 ELSE <<>>
            ELSE IF Contains(domain, "github.com") \/ Contains(domain, "stackoverflow.com")
            THEN programming_topics
            ELSE IF Contains(domain, "tech") \/ Contains(domain, "technology")
            THEN tech_topics
            ELSE IF Contains(domain, "business") \/ Contains(domain, "startup")
                    \/ Contains(domain, "entrepreneur")
            THEN business_topics
            ELSE <<>>
        all_topics == Distinct(general_topics \o extra, 1)
    IN  SubSeq(Rotated(all_topics, pick.shuffle), 1, Min(pick.num_topics, Len(all_topics)))

\* lines 42-115: the simulated summary of a URL; the ValueError of urlparse
\* (line 57) leaves the method
_mock_summarize_url(url, pick) ==
    LET parsed_url == urlparse(url)
        domain == parsed_url.netloc
        is_reddit == Contains(domain, "reddit.com")
        subreddit == IF is_reddit THEN RedditCommunity(parsed_url.path) ELSE ""
    IN  IF parsed_url.raised
        THEN [raised |-> TRUE, exc |-> "ValueError", value |-> <<>>]
        ELSE [raised |-> FALSE, exc |-> "none",
              value |-> [title |-> MockSummaryTitle(domain, is_reddit, subreddit, pick),
                         summary |-> _generate_mock_summary(domain, is_reddit, subreddit, pick),
                         main_topics |-> _generate_mock_topics(domain, is_reddit, subreddit, pick),
                         metadata |-> [domain |-> domain, url |-> url,
                                       estimated_reading_time |-> pick.reading_time,
                                       language |-> "pt-BR",
                                       word_count |-> pick.word_count]]]

\* what the remote summarizer may do with a request: the connection fails,
\* the status is an error (raise_for_status), the body is not JSON, or the
\* body is a JSON value
SummaryFailures == {"transport_error", "http_error", "non_json"}

\* lines 300-325: the try block; exc names the exception it raises.  requests
\* refuses a URL without a scheme, or one it cannot parse, before anything is
\* sent
SummaryTryBody(url, outcome) ==
    IF ~is_url(url)
    THEN [exc |-> "MissingSchema", value |-> <<>>, sent |-> 0]
    ELSE IF urlparse(url).raised
    THEN [exc |-> "InvalidURL", value |-> <<>>, sent |-> 0]
    ELSE IF outcome.kind \in SummaryFailures
    THEN [exc |-> outcome.kind, value |-> <<>>, sent |-> 1]
    ELSE IF outcome.resp.t # "obj"
    THEN [exc |-> "AttributeError", value |-> <<>>, sent |-> 1]
    ELSE [exc |-> "none", sent |-> 1,
          value |-> [title |-> DictGet(outcome.resp.v, "title", JStr("")),
                     summary |-> DictGet(outcome.resp.v, "summary", JStr("")),
                     main_topics |-> DictGet(outcome.resp.v, "main_topics", JList(<<>>)),
                     metadata |-> DictGet(outcome.resp.v, "metadata", JObj(<<>>))]]

\* lines 283-331.  simulated: the value is the one of _mock_summarize_url;
\* remote_calls: the requests sent
summarize_url(use_mock, url, outcome, pick) ==
    LET mock == _mock_summarize_url(url, pick)
        body == SummaryTryBody(url, outcome)
    IN  IF use_mock
        THEN [raised |-> mock.raised, exc |-> mock.exc, value |-> mock.value,
              simulated |-> TRUE, remote_calls |-> 0]
        ELSE IF body.exc = "none"
        THEN [raised |-> FALSE, exc |-> "none", value |-> body.value,
              simulated |-> FALSE, remote_calls |-> body.sent]
        ELSE [raised |-> mock.raised, exc |-> mock.exc, value |-> mock.value,
              simulated |-> TRUE, remote_calls |-> body.sent]

\* app.py:209-213
analyze_url(use_mock, url, outcome, pick) == summarize_url(use_mock, url, outcome, pick)

----------------------------------------------------------------------------
(* SpecSummarize: one summarize_url call *)

SummaryUrls ==
    { "https://www.reddit.com/r/python/comments/py0001/duvida/",
      "https://www.reddit.com/r/python/",
      "https://github.com/user/repo",
      "https://technews.example.com/artigo",
      "http://example.com",
      "https://[2001:db8::1/post",
      "reddit.com/r/python" }

\* draws of the random module: random.choice (line 156), random.shuffle and
\* random.sample (lines 211, 279), random.randint (lines 104, 106, 214, 278)
SummaryPicks ==
    { [title |-> 1, shuffle |-> 1, num_paragraphs |-> 2, num_topics |-> 3,
       reading_time |-> 3, word_count |-> 500],
      [title |-> 5, shuffle |-> 3, num_paragraphs |-> 3, num_topics |-> 5,
       reading_time |-> 15, word_count |-> 3000] }

\* JSON bodies the remote summarizer may answer with
S_full ==
    JObj([title |-> JStr("Python"), summary |-> JStr("Um resumo."),
          main_topics |-> JList(<<"Python">>), metadata |-> JObj(<<>>)])

S_partial == JObj("title" :> JStr("Python"))

SummaryOutcomes ==
    {Failure(k) : k \in SummaryFailures} \cup {Answer(r) : r \in {S_full, S_partial, R_non_object}}

SummaryInputs ==
    { [op |-> "summarize_url", use_mock |-> um, url |-> u, outcome |-> o, pick |-> p] :
        um \in BOOLEAN, u \in SummaryUrls, o \in SummaryOutcomes, p \in SummaryPicks }

SummaryRuns ==
    { [in |-> i, res |-> summarize_url(i.use_mock, i.url, i.outcome, i.pick)] : i \in SummaryInputs }

InitSummarize ==
    /\ SessionInit
    /\ pc = "idle"
    /\ inp = NoCall
    /\ out = NoCall

SummarizeCall ==
    \E run \in SummaryRuns :
        /\ pc = "idle"
        /\ inp' = run.in
        /\ out' = run.res
        /\ pc' = "done"
        /\ UNCHANGED session

NextSummarize == SummarizeCall

SpecSummarize == InitSummarize /\ [][NextSummarize]_vars

----------------------------------------------------------------------------
(* SpecRate: the courtesy delay of the Source and of the Classifier.  Time is
   counted in ticks; the script is one thread, so one call is in progress at
   a time and time passes at any point of it. *)

TicksPerSecond == 2

\* reddit_api.py:23, openai_classifier.py:36: one second
request_delay == 1 * TicksPerSecond

\* time.time() when the components are constructed: far from 0
StartTime == request_delay + 1

\* the ticks the model follows after the start
Horizon == 6

MaxTime == StartTime + Horizon

\* the objects of load_apis with a last_request_time of their own
Components == {"Source", "Classifier"}

\* out.now: time.time(); out.last_request_time: the attribute of each
\* component; out.sleep_until: the end of the last time.sleep; out.issued: the
\* times at which each component issued its last two requests
RateState(now, last_request_time, sleep_until, issued) ==
    [op |-> "rate", now |-> now, last_request_time |-> last_request_time,
     sleep_until |-> sleep_until, issued |-> issued]

\* the constructors: reddit_api.py:22, openai_classifier.py:35
InitRate ==
    /\ SessionInit
    /\ pc = "idle"
    /\ inp = NoCall
    /\ out = RateState(StartTime, [c \in Components |-> 0], 0, [c \in Components |-> <<>>])

\* time passes
Tick ==
    /\ out.now < MaxTime
    /\ out' = [out EXCEPT !.now = @ + 1]
    /\ UNCHANGED <<pc, inp, session>>

\* the test of line 36 (openai_classifier.py:43) without the wait
SleepNeeded_Never(time_since_last_request) == FALSE

\* line 36, openai_classifier.py:43
SleepNeeded(time_since_last_request) == time_since_last_request < request_delay

\* search_posts (reddit_api.py:258) or classify_post (openai_classifier.py:174)
\* is called and enters _respect_rate_limit: lines 33-37.  The call starts the
\* sleep or goes on to line 39
EnterRateLimit ==
    \E c \in Components :
        LET current_time == out.now
            time_since_last_request == current_time - out.last_request_time[c]
        IN  /\ pc = "idle"
            /\ out.now + request_delay <= MaxTime
            /\ inp' = [op |-> "_respect_rate_limit", component |-> c]
            /\ IF SleepNeeded(time_since_last_request)
               THEN /\ pc' = "sleeping"
                    /\ out' = [out EXCEPT !.sleep_until =
                                  current_time + (request_delay - time_since_last_request)]
               ELSE /\ pc' = "awake"
                    /\ UNCHANGED out
            /\ UNCHANGED session

\* time.sleep returns: not before the time asked for has passed
Wake ==
    /\ pc = "sleeping"
    /\ out.now >= out.sleep_until
    /\ pc' = "awake"
    /\ UNCHANGED <<inp, out, session>>

\* the last two of the times
LastTwo(times) == SubSeq(times, IF Len(times) > 2 THEN Len(times) - 1 ELSE 1, Len(times))

\* line 39 (openai_classifier.py:46): self.last_request_time = time.time();
\* _respect_rate_limit returns and the component issues its request, the next
\* thing it does (reddit_api.py:260-266, openai_classifier.py:177-218), at the
\* time stamped
IssueRequest ==
    /\ pc = "awake"
    /\ out' = [out EXCEPT !.last_request_time[inp.component] = out.now,
                          !.issued[inp.component] = LastTwo(Append(@, out.now))]
    /\ pc' = "request"
    /\ UNCHANGED <<inp, session>>

\* the request is answered, however long that took, and the call ends
Return ==
    /\ pc = "request"
    /\ pc' = "idle"
    /\ inp' = NoCall
    /\ UNCHANGED <<out, session>>

NextRate == Tick \/ EnterRateLimit \/ Wake \/ IssueRequest \/ Return

SpecRate == InitRate /\ [][NextRate]_vars

----------------------------------------------------------------------------
(* Spec: the session across the interactions of main() *)

AppQueries == {"python", "zzzznoexist"}

AppUrlInputs == {"https://www.reddit.com/r/python/", "reddit.com/r/python"}

\* what the remote summarizer does in the session, and the draw of the
\* simulated summary
AppSummaryOutcomes == {Failure("transport_error"), Answer(S_full)}

AppSummaryPicks ==
    {p \in SummaryPicks : p.title = 1}

\* the slider's default (app.py:227)
AppLimits == {10}

\* POST_TYPES entries the selectbox passes (app.py:124-127, 297)
AppPostTypes == {Some("Todos os tipos"), Some("Pergunta")}

\* lines 304-305 without the membership test
AppendIfAbsent_Always(history, entry) == Append(history, entry)

\* lines 304-305, 331-332
AppendIfAbsent(history, entry) ==
    IF InSeq(entry, history) THEN history ELSE Append(history, entry)

\* the statement st.session_state.current_results = search_reddit(...): when
\* the call raises, the script run ends there; what line 163 stored stays
AfterSearch(res) ==
    /\ original_results' = (IF res.snapshot = None THEN original_results ELSE res.snapshot)
    /\ IF res.raised
       THEN UNCHANGED <<current_results, current_summary>>
       ELSE /\ current_results' = res.ret
            /\ current_summary' = None

\* lines 302-316: the Buscar button with a non-empty query; the widgets'
\* values are the arguments (lines 308-315)
\* a search during which the remote model answers every post with a JSON
\* value that is not an object
AppNonObjectInputs ==
    { [op |-> "search_reddit", query |-> q, subreddit |-> None, limit |-> lim,
       days_ago |-> None, only_text |-> FALSE, post_type |-> Some("Todos os tipos"),
       use_mock |-> FALSE,
       outcomes |-> [i \in 1..Len(search_and_format(q, None, lim)) |-> Answer(R_non_object)],
       parse_fails |-> FALSE] : q \in AppQueries, lim \in AppLimits }

AppSearchRuns ==
    { run \in SearchRuns : /\ run.in.query \in AppQueries
                           /\ run.in.limit \in AppLimits
                           /\ run.in.post_type \in AppPostTypes }
    \cup { [in |-> i,
            res |-> search_reddit(i.query, i.subreddit, i.limit, i.days_ago, i.only_text,
                                  i.post_type, i.use_mock, i.outcomes, Now, i.parse_fails)]
          : i \in AppNonObjectInputs }

SearchButton ==
    \E run \in AppSearchRuns :
        /\ run.in.use_mock = inp.use_mock
        /\ search_history' = AppendIfAbsent(search_history, run.in.query)
        /\ AfterSearch(run.res)
        /\ out' = NoCall
        /\ UNCHANGED <<pc, inp>>

\* search_history[-5:]
LastFive(history) ==
    SubSeq(history, IF Len(history) > 5 THEN Len(history) - 4 ELSE 1, Len(history))

\* the statement st.session_state.current_summary = analyze_url(...) and the
\* one after it: when the call raises, the script run ends there
AfterAnalysis(res) ==
    IF res.raised
    THEN UNCHANGED <<current_results, current_summary>>
    ELSE /\ current_summary' = Some(res.value)
         /\ current_results' = None

\* lines 230-239: a button of the history.  A link is analysed again; a
\* query is searched again with the limit alone (line 238)
HistoryRuns ==
    { run \in SearchRuns : /\ run.in.limit \in AppLimits
                           /\ run.in.subreddit = None /\ run.in.days_ago = None
                           /\ run.in.only_text = FALSE /\ run.in.post_type = None }

AppSummaryRuns ==
    { run \in SummaryRuns : /\ run.in.url \in AppUrlInputs
                            /\ run.in.outcome \in AppSummaryOutcomes
                            /\ run.in.pick \in AppSummaryPicks }

\* what a button of the history did: the entry it re-ran and whether the
\* search it made applied a filter
HistoryReport(entry, filters_applied) ==
    [op |-> "history_button", entry |-> entry, filters_applied |-> filters_applied]

HistoryButton ==
    \/ \E run \in AppSummaryRuns :
          \E i \in 1..Len(LastFive(search_history)) :
             /\ is_url(LastFive(search_history)[i])
             /\ run.in.url = LastFive(search_history)[i]
             /\ run.in.use_mock = inp.summarizer_mock
             /\ AfterAnalysis(run.res)
             /\ out' = HistoryReport(run.in.url, FALSE)
             /\ UNCHANGED <<search_history, original_results, pc, inp>>
    \/ \E run \in HistoryRuns :
          \E i \in 1..Len(LastFive(search_history)) :
             /\ ~is_url(LastFive(search_history)[i])
             /\ run.in.use_mock = inp.use_mock
             /\ run.in.query = LastFive(search_history)[i]
             /\ AfterSearch(run.res)
             /\ out' = HistoryReport(run.in.query, run.res.filters_applied)
             /\ UNCHANGED <<search_history, pc, inp>>

\* what the Analisar button did with its input: the st.error of line 328 and
\* the calls of the summarizer
AnalysisReport(url_input, error, summarize_calls) ==
    [op |-> "analyze_button", url_input |-> url_input, error |-> error,
     summarize_calls |-> summarize_calls]

\* line 327 without its test: every input is taken for a link
AnalyzeRejects_Never(url_input) == FALSE

\* line 327
AnalyzeRejects(url_input) == ~is_url(url_input)

\* lines 325-336: the Analisar button with a non-empty input
AnalyzeButton ==
    \/ \E url_input \in AppUrlInputs :
          /\ AnalyzeRejects(url_input)
          /\ out' = AnalysisReport(url_input, "invalid_url", 0)
          /\ UNCHANGED <<session, pc, inp>>
    \/ \E run \in AppSummaryRuns :
          \E url_input \in AppUrlInputs :
             /\ ~AnalyzeRejects(url_input)
             /\ run.in.url = url_input
             /\ run.in.use_mock = inp.summarizer_mock
             /\ search_history' = AppendIfAbsent(search_history, url_input)
             /\ AfterAnalysis(run.res)
             /\ out' = AnalysisReport(url_input, "none", 1)
             /\ UNCHANGED <<original_results, pc, inp>>

\* lines 463-466: "Mostrar Todos os Resultados (Sem Filtros)"
ShowAllButton ==
    /\ original_results # None
    /\ current_results' = original_results
    /\ out' = NoCall
    /\ UNCHANGED <<search_history, current_summary, original_results, pc, inp>>

\* the classifier and the summarizer are constructed once (load_apis, lines
\* 103-110), from one environment: with the API keys or without them
Init ==
    /\ SessionInit
    /\ pc = "app"
    /\ inp \in {[op |-> "app", use_mock |-> um, summarizer_mock |-> um] : um \in BOOLEAN}
    /\ out = NoCall

Next == SearchButton \/ HistoryButton \/ AnalyzeButton \/ ShowAllButton

Spec == Init /\ [][Next]_vars

----------------------------------------------------------------------------
(* Claims about search_reddit and the session *)

SearchDone == pc = "done" /\ inp.op = "search_reddit"

\* what the fetch of the call yields and what the classifier makes of it
FetchedOf(i) == search_and_format(i.query, i.subreddit, i.limit)

ClassifiedOf(i) == classify_posts_dataframe(FetchedOf(i), i.use_mock, i.outcomes)

DateOn(i) == i.days_ago # None

TypeOn(i) == i.post_type # None /\ Val(i.post_type) # "Todos os tipos"

FilterEnabled(i) == DateOn(i) \/ i.only_text \/ TypeOn(i)

\* the post passes every filter of the call that takes effect
Kept(row, i) ==
    /\ (DateOn(i) /\ ~i.parse_fails)
          => ParseDate(row["created_date"]) >= Now - Day(Val(i.days_ago))
    /\ i.only_text => Len(row["selftext"]) > MinBody
    /\ TypeOn(i) => /\ row["categoria"].t = "str"
                    /\ Lower(row["categoria"].v) = Lower(Val(i.post_type))

\* C1: revert law: when a search_reddit call returns, its classified set is
\* non-empty, at least one filter is enabled and no classified post passes the
\* filters, the returned set is the whole classified set in the same order, the
\* reverted notice is shown and the count it names is the size of the returned
\* set.
C1_RevertLaw ==
    (SearchDone /\ ~out.raised /\ FilterEnabled(inp)
        /\ ~ClassifiedOf(inp).raised /\ ClassifiedOf(inp).df # <<>>
        /\ \A k \in 1..Len(ClassifiedOf(inp).df) : ~Kept(ClassifiedOf(inp).df[k], inp))
    => /\ out.ret = Some(ClassifiedOf(inp).df)
       /\ out.notice.kind = "reverted"
       /\ out.notice.count = Len(Val(out.ret))

C1_Witness ==
    /\ SearchDone /\ ~out.raised
    /\ inp.query = "AI" /\ inp.limit = 10 /\ inp.subreddit = None
    /\ inp.days_ago = Some(7) /\ ~inp.parse_fails /\ ~inp.only_text /\ inp.post_type = None
    /\ out.filtered = <<>>
    /\ out.notice = [kind |-> "reverted", count |-> 2]
    /\ Len(Val(out.ret)) = 2

\* C2: when the fetch returns zero posts, search_reddit returns the no-results
\* signal and the classifier is never invoked during the search: no
\* classify_post call, no remote inference call, no rate-limit wait.
C2_EmptyFetchSkipsClassifier ==
    (SearchDone /\ FetchedOf(inp) = <<>>)
    => /\ ~out.raised
       /\ out.ret = None
       /\ out.notice.kind = "no_results"
       /\ ~InSeq("classify_all", out.steps)
       /\ out.classify_calls = 0
       /\ out.remote_calls = 0
       /\ out.rate_waits = 0

C2_Witness ==
    /\ SearchDone
    /\ inp.query = "zzzznoexist" /\ inp.limit = 10 /\ ~inp.use_mock
    /\ inp.only_text
    /\ out.fetched = 0
    /\ out.ret = None
    /\ out.steps = <<"fetch", "format">>

\* C3: no results and reverted are distinct and exclusive outcomes: a
\* search_reddit call that returns yields None exactly when the fetch returned
\* zero posts, and for a non-empty fetch it yields a non-empty set under every
\* combination of filter options: filtering alone never gives no results.
C3_NoResultsIffEmptyFetch ==
    (SearchDone /\ ~out.raised)
    => /\ (out.ret = None) <=> (FetchedOf(inp) = <<>>)
       /\ out.ret # None => Val(out.ret) # <<>>
       /\ (out.notice.kind = "no_results") <=> (out.ret = None)
       /\ out.notice.kind = "reverted" => (out.ret # None /\ FetchedOf(inp) # <<>>)

C3_Witness ==
    /\ SearchDone /\ ~out.raised
    /\ inp.query = "python" /\ inp.only_text /\ inp.post_type = Some("tutorial")
    /\ inp.days_ago = Some(7) /\ ~inp.parse_fails
    /\ out.fetched = 2
    /\ out.filtered = <<>>
    /\ out.notice.kind = "reverted"
    /\ Len(Val(out.ret)) = 2

Ids(df) == {df[k]["id"] : k \in 1..Len(df)}

\* C4 (as claimed): in every state reachable through searches, history
\* re-runs, link analyses and show-all, whenever a result set is shown every
\* post of it, by identifier, is in the retained unfiltered set.
C4_ShownWithinRetained ==
    (pc = "app" /\ current_results # None)
    => /\ original_results # None
       /\ Ids(Val(current_results)) \subseteq Ids(Val(original_results))

----------------------------------------------------------------------------
(* Claims about the classifier and the formatter *)

FourKeys == {"categoria", "sentimento", "tópicos", "insights"}

SeqSet(l) == {l[i] : i \in 1..Len(l)}

\* a JSON value that conforms to the four-key schema of the prompt (lines 213-219)
Conforms(x) ==
    /\ x.t = "obj"
    /\ DOMAIN x.v = FourKeys
    /\ x.v["categoria"].t = "str"
    /\ x.v["sentimento"].t = "str"
    /\ x.v["tópicos"].t = "list"
    /\ x.v["insights"].t = "list"

\* the output contract: four well-typed fields, closed vocabularies, non-empty lists
WellFormed(x) ==
    /\ Conforms(x)
    /\ x.v["categoria"].v \in SeqSet(categories)
    /\ x.v["sentimento"].v \in SeqSet(sentiments)
    /\ x.v["tópicos"].v # <<>>
    /\ x.v["insights"].v # <<>>

FallbackUsed ==
    /\ pc = "done"
    /\ inp.op = "classify_post"
    /\ (inp.use_mock \/ inp.outcome.kind \in RemoteFailures)

\* C5: classify_post never propagates an error: whenever the remote path meets
\* a transport error, an authentication failure, a missing API key or a
\* non-JSON response, the call returns, and what it returns is the rule-based
\* fallback's classification of the same title and body.
C5_FailureFallsBack ==
    (pc = "done" /\ inp.op = "classify_post" /\ ~inp.use_mock
        /\ inp.outcome.kind \in RemoteFailures)
    => /\ ~out.raised
       /\ out.value = _mock_classify_post(inp.title, inp.text)

C5_Witness ==
    /\ pc = "done" /\ inp.op = "classify_post" /\ ~inp.use_mock
    /\ inp.outcome.kind = "transport_error"
    /\ inp.title = "Preciso de ajuda com python para um projeto"
    /\ ~out.raised
    /\ out.value.v["categoria"] = JStr("Pedido de Ajuda")

\* C6 (as claimed): a response that is valid JSON but does not conform to the
\* four-key schema is replaced wholesale by the fallback classification: the
\* batch call returns and the row carries the fallback's four fields.
C6_NonConformingReplaced ==
    (pc = "done" /\ inp.op = "classify_posts_dataframe" /\ ~inp.use_mock)
    => \A i \in 1..Len(inp.df) :
          (inp.outcomes[i].kind = "ok" /\ ~Conforms(inp.outcomes[i].resp))
          => LET fb == _mock_classify_post(inp.df[i]["title"], inp.df[i]["selftext"]).v IN
             /\ ~out.raised
             /\ out.df[i]["categoria"] = fb["categoria"]
             /\ out.df[i]["sentimento"] = fb["sentimento"]
             /\ out.df[i]["tópicos"] = JStr(Join(", ", fb["tópicos"].v))
             /\ out.df[i]["insights"] = JStr(Join("; ", fb["insights"].v))

\* C7: the rule-based fallback alone meets the output contract: whenever a call
\* was answered by the fallback (mock mode, or a failed remote path) the value
\* has exactly the four fields, a category of the closed vocabulary, a sentiment
\* among the four, a non-empty topic list and a non-empty insight list.
C7_FallbackWellFormed == FallbackUsed => (~out.raised /\ WellFormed(out.value))

C7_Witness ==
    /\ FallbackUsed
    /\ inp.title = "" /\ inp.text = ""
    /\ out.value.v["tópicos"] = JList(<<"Discussão Geral">>)
    /\ Len(out.value.v["insights"].v) = 1

BatchDone == pc = "done" /\ inp.op = "classify_posts_dataframe"

\* the remote path of row i failed, or answered with a well-formed classification
FailedOrWellFormed(o) ==
    o.kind \in RemoteFailures \/ (o.kind = "ok" /\ WellFormed(o.resp))

NonEmptyStr(x) == x.t = "str" /\ x.v # ""

\* C8: a remote failure on post i does not abort the batch: when the remote
\* call fails on any subset of the rows (all of them included) and answers
\* well-formed on the others, no exception leaves classify_posts_dataframe and
\* every row, those after a failed one included, ends with a non-empty category
\* and a non-empty sentiment.
C8_BatchSurvivesFailures ==
    (BatchDone /\ ~inp.use_mock
        /\ \A i \in 1..Len(inp.df) : FailedOrWellFormed(inp.outcomes[i]))
    => /\ ~out.raised
       /\ Len(out.df) = Len(inp.df)
       /\ \A i \in 1..Len(out.df) :
             NonEmptyStr(out.df[i]["categoria"]) /\ NonEmptyStr(out.df[i]["sentimento"])

C8_Witness ==
    /\ BatchDone /\ ~inp.use_mock
    /\ Len(inp.df) = 2
    /\ inp.outcomes[1].kind = "auth_failure"
    /\ inp.outcomes[2].kind = "transport_error"
    /\ ~out.raised
    /\ out.df[2]["categoria"] = JStr("Pedido de Ajuda")
    /\ out.fallback_calls = 2

ExpectedCalls(df) ==
    [i \in 1..Len(df) |-> [i |-> i, title |-> df[i]["title"], text |-> df[i]["selftext"]]]

\* C9: classify_posts_dataframe preserves count and order and classifies each
\* post once: the calls made are always the first rows' own (title, body)
\* pairs in input order, no cell is written twice, and when the call returns
\* the frame has the input's rows in the input's order, N classify_post calls
\* were made for N rows and each row's four cells were written.
C9_BatchOncePerPostInOrder ==
    BatchDone
    => /\ Len(out.calls) <= Len(inp.df)
       /\ out.calls = SubSeq(ExpectedCalls(inp.df), 1, Len(out.calls))
       /\ \A j, k \in 1..Len(out.writes) : out.writes[j] = out.writes[k] => j = k
       /\ ~out.raised =>
            /\ Len(out.df) = Len(inp.df)
            /\ \A i \in 1..Len(inp.df) :
                  /\ \A f \in DOMAIN inp.df[i] : out.df[i][f] = inp.df[i][f]
                  /\ \A c \in FourKeys : [i |-> i, col |-> c] \in SeqSet(out.writes)
            /\ Len(out.calls) = Len(inp.df)
            /\ Len(out.writes) = 4 * Len(inp.df)

C9_Witness ==
    /\ BatchDone
    /\ ~out.raised
    /\ Len(inp.df) = 2
    /\ inp.df[1]["id"] = "ai0001" /\ inp.df[2]["id"] = "py0001"
    /\ out.df[1]["id"] = "ai0001" /\ out.df[2]["id"] = "py0001"
    /\ Len(out.calls) = 2
    /\ out.calls[2].title = "Dúvida sobre python: como resolver este problema?"

\* C10: format_posts is 1:1 and order-preserving: the frame has as many rows as
\* there are raw posts, row i carries the identifier of raw post i, and a
\* missing field becomes its empty-string or zero default instead of dropping
\* the post.
C10_FormatOneToOne ==
    (pc = "done" /\ inp.op = "format_posts")
    => /\ Len(out.df) = Len(inp.posts)
       /\ \A i \in 1..Len(inp.posts) :
             /\ out.df[i].id = (IF "id" \in DOMAIN inp.posts[i] THEN inp.posts[i].id ELSE "")
             /\ "title" \notin DOMAIN inp.posts[i] => out.df[i].title = ""
             /\ "score" \notin DOMAIN inp.posts[i] => out.df[i].score = 0

C10_Witness ==
    /\ pc = "done" /\ inp.op = "format_posts"
    /\ Len(inp.posts) = 3
    /\ "id" \notin DOMAIN inp.posts[2]
    /\ out.df[1].id = "ai0002" /\ out.df[2].id = "" /\ out.df[3].id = "py0001"

----------------------------------------------------------------------------
(* Claims about the source, the filters and the link analysis *)

FormatDone == pc = "done" /\ inp.op = "format_posts"

\* C11 (as claimed): every formatted post's URL is absolute: it starts with a
\* scheme whether the raw post's link was relative or absolute, and no
\* formatted post has an empty or relative URL.
C11_UrlAbsolute ==
    FormatDone => \A k \in 1..Len(out.df) : is_url(out.df[k].url)

FetchDone == pc = "done" /\ inp.op = "search_posts"

\* C12: for every query, optional community and positive limit, search_posts
\* returns at most limit posts, newest first by creation time, and when a
\* community is given every returned post is of that community, letter case
\* ignored.
C12_FetchBoundedNewestFirst ==
    FetchDone
    => /\ Len(out.posts) <= inp.limit
       /\ \A j, k \in 1..Len(out.posts) :
             j < k => out.posts[j]["created_utc"] >= out.posts[k]["created_utc"]
       /\ inp.subreddit # None
             => \A k \in 1..Len(out.posts) :
                   Lower(out.posts[k]["subreddit"]) = Lower(Val(inp.subreddit))

C12_Witness ==
    /\ FetchDone
    /\ inp.query = "p" /\ inp.subreddit = None /\ inp.limit = 3
    /\ Len(out.posts) = 3
    /\ out.posts[1]["id"] = "wd0001"
    /\ out.posts[2]["id"] = "py0001"
    /\ out.posts[3]["id"] = "py0002"

\* the classified posts of the call that pass every filter that takes effect,
\* in their order
KeptOf(i) == SelectSeq(ClassifiedOf(i).df, LAMBDA row : Kept(row, i))

\* a returned row is the classified row (the date filter leaves its parsed
\* column beside the row's own fields)
SameRows(ret, rows) ==
    /\ Len(ret) = Len(rows)
    /\ \A k \in 1..Len(rows) : \A f \in DOMAIN rows[k] : ret[k][f] = rows[k][f]

\* C13: when a search_reddit call returns without reverting, the returned set
\* is exactly the classified posts that satisfy every enabled predicate at once
\* (created within days_ago days of the evaluation time, boundary included;
\* body strictly longer than 10 characters; category equal to post_type
\* ignoring case), in their original order; a disabled predicate removes
\* nothing and does not set the filters-applied flag.  (A date predicate whose
\* parse fails removes nothing: C14.)
C13_FiltersConjunctive ==
    (SearchDone /\ ~out.raised /\ FetchedOf(inp) # <<>> /\ out.notice.kind # "reverted")
    => /\ out.ret # None
       /\ SameRows(Val(out.ret), KeptOf(inp))
       /\ out.filters_applied <=> FilterEnabled(inp)

C13_Witness ==
    /\ SearchDone /\ ~out.raised /\ inp.use_mock
    /\ inp.query = "python" /\ inp.subreddit = None /\ inp.limit = 10
    /\ inp.days_ago = Some(7) /\ ~inp.parse_fails /\ ~inp.only_text
    /\ inp.post_type = Some("Todos os tipos")
    /\ out.notice.kind = "none"
    /\ out.filters_applied
    /\ Len(Val(out.ret)) = 2
    /\ Val(out.ret)[2]["id"] = "py0002"
    /\ ParseDate(Val(out.ret)[2]["created_date"]) = Now - Day(7)

\* the same call with the date option left at "any date"
WithoutDateFilter(i) ==
    search_reddit(i.query, i.subreddit, i.limit, None, i.only_text, i.post_type,
                  i.use_mock, i.outcomes, Now, FALSE)

\* C14: the date filter fails open: when parsing the creation dates raises,
\* the date predicate removes no post, the other enabled predicates are still
\* applied, and the search ends as it would without a date option instead of
\* propagating the parse error: the error is reported, and the call returns
\* the posts that pass the body and category predicates (all classified posts
\* when none does).
C14_DateFilterFailsOpen ==
    (SearchDone /\ DateOn(inp) /\ inp.parse_fails /\ FetchedOf(inp) # <<>>)
    => /\ out.raised = WithoutDateFilter(inp).raised
       /\ out.ret = WithoutDateFilter(inp).ret
       /\ out.snapshot # None => out.date_error
       /\ ~out.raised =>
            /\ out.ret # None
            /\ out.notice.kind # "reverted" => SameRows(Val(out.ret), KeptOf(inp))
            /\ out.notice.kind = "reverted" => KeptOf(inp) = <<>>

C14_Witness ==
    /\ SearchDone /\ ~out.raised /\ inp.use_mock
    /\ inp.query = "AI" /\ inp.subreddit = None /\ inp.limit = 10
    /\ inp.days_ago = Some(7) /\ inp.parse_fails
    /\ inp.only_text /\ inp.post_type = None
    /\ out.date_error
    /\ out.notice.kind = "none"
    /\ Len(Val(out.ret)) = 1
    /\ Val(out.ret)[1]["id"] = "ai0001"

FilterDone == pc = "done" /\ inp.op = "filter"

\* the filter step applied to what the step returned, with the same options
\* at the same evaluation time
FilteredAgain ==
    FilterStep(Val(out.ret), NoBatch, inp.days_ago, inp.only_text, inp.post_type, Now,
               inp.parse_fails)

\* C15: filter idempotence: for every classified set and every option
\* combination, at a fixed evaluation time, applying the filter step to its
\* own output with the same options yields the same set again, also when the
\* first application reverted to the whole set.
C15_FilterIdempotent ==
    (FilterDone /\ ~out.raised /\ out.ret # None)
    => /\ ~FilteredAgain.raised
       /\ FilteredAgain.ret = out.ret

C15_Witness ==
    /\ FilterDone /\ ~out.raised
    /\ Len(inp.df) = 3
    /\ ~inp.only_text /\ inp.days_ago = Some(30) /\ ~inp.parse_fails
    /\ inp.post_type = Some("discussão")
    /\ out.notice.kind = "none"
    /\ Len(Val(out.ret)) = 1
    /\ Val(out.ret)[1]["id"] = "py0002"
    /\ FilteredAgain.ret = out.ret

\* the posts whose category is Tutorial in some letter case
Tutorials(df) ==
    SelectSeq(df, LAMBDA row : /\ row["categoria"].t = "str"
                               /\ row["categoria"].v \in {"Tutorial", "tutorial", "TUTORIAL"})

\* C16: the category predicate matches case-insensitively: alone, the option
\* 'tutorial' keeps exactly the posts whose category is Tutorial in any letter
\* case (and counts as an applied filter); the sentinel 'Todos os tipos' or an
\* absent option disables the predicate: it removes nothing and does not
\* count as an applied filter.
C16_CategoryIgnoresCase ==
    (FilterDone /\ ~out.raised)
    => /\ (inp.post_type = Some("tutorial") /\ ~DateOn(inp) /\ ~inp.only_text)
            => /\ out.filters_applied
               /\ out.filtered = Tutorials(inp.df)
               /\ out.ret = Some(IF Tutorials(inp.df) = <<>> THEN inp.df ELSE Tutorials(inp.df))
       /\ inp.post_type \in {None, Some("Todos os tipos")}
            => /\ out.filters_applied <=> (DateOn(inp) \/ inp.only_text)
               /\ SameRows(out.filtered, SelectSeq(inp.df, LAMBDA row : Kept(row, inp)))
               /\ (~DateOn(inp) /\ ~inp.only_text)
                     => (out.ret = Some(inp.df) /\ out.notice.kind = "none")

C16_Witness ==
    /\ FilterDone /\ ~out.raised
    /\ inp.post_type = Some("tutorial") /\ ~DateOn(inp) /\ ~inp.only_text
    /\ Len(inp.df) = 3
    /\ inp.df[2]["categoria"] = JStr("Pergunta")
    /\ Len(Val(out.ret)) = 2
    /\ Val(out.ret)[1]["categoria"] = JStr("Tutorial")
    /\ Val(out.ret)[2]["categoria"] = JStr("TUTORIAL")

SummarizeDone == pc = "done" /\ inp.op = "summarize_url"

SummaryKeys == {"title", "summary", "main_topics", "metadata"}

\* C19 (as claimed): summarize_url never raises and what it returns has the
\* keys title, summary, main_topics and metadata; in simulated mode, and when
\* the remote call fails, it is the simulated summary of the URL.
C19_SummaryNeverRaises ==
    SummarizeDone
    => /\ ~out.raised
       /\ DOMAIN out.value = SummaryKeys
       /\ (inp.use_mock \/ SummaryTryBody(inp.url, inp.outcome).exc # "none")
             => /\ out.simulated
                /\ out.value = _mock_summarize_url(inp.url, inp.pick).value

\* C20 (as claimed): the rule-based fallback gives the sentiment Misto to a
\* body that holds a contrast connective, a positive keyword and a negative
\* keyword.
C20_ContrastIsMixed ==
    (FallbackUsed /\ ~out.raised
        /\ AnyIn(contrast_words, Lower(inp.text))
        /\ AnyIn(positive_words, Lower(inp.text))
        /\ AnyIn(negative_words, Lower(inp.text)))
    => out.value.v["sentimento"] = JStr("Misto")

\* C18: two consecutive requests of the same component (the Source's
\* search_posts, the Classifier's classify_post) are at least request_delay
\* apart, a caller that came too early having slept in _respect_rate_limit
\* until then; and a component's last_request_time changes only in a call of
\* that component.
C18_RequestsSpaced ==
    /\ [](out.op = "rate"
            => \A c \in Components :
                  Len(out.issued[c]) = 2
                     => out.issued[c][2] - out.issued[c][1] >= request_delay)
    /\ [][\A c \in Components :
             out'.last_request_time[c] # out.last_request_time[c]
                => (pc = "awake" /\ inp.component = c)]_vars

C18_Witness ==
    /\ out.op = "rate" /\ pc = "idle"
    /\ Len(out.issued["Source"]) = 2
    /\ out.issued["Source"][2] - out.issued["Source"][1] = request_delay
    /\ out.sleep_until = out.issued["Source"][2]
    /\ Len(out.issued["Classifier"]) = 2
    /\ out.last_request_time["Classifier"] # out.last_request_time["Source"]

----------------------------------------------------------------------------
(* Claims about the fallback's rules, the lookup and the order of a search *)

\* C21 (as claimed): the rule-based fallback returns between 1 and 3 insight
\* strings for every title and body.
C21_InsightsOneToThree ==
    (FallbackUsed /\ ~out.raised)
    => /\ Len(out.value.v["insights"].v) >= 1
       /\ Len(out.value.v["insights"].v) <= 3

\* the rules of the category in their order: the category and the keywords
\* looked for in the lower-cased title (a question mark is its own lower case)
CategoryRules ==
    << <<"Pergunta", <<"?", "como", "dúvida">> >>,
       <<"Pedido de Ajuda", <<"ajuda", "problema">> >>,
       <<"Tutorial", <<"tutorial", "guia">> >>,
       <<"Notícia", <<"notícia", "lançamento", "anúncio">> >>,
       <<"Opinião", <<"opinião", "acho que">> >>,
       <<"Compartilhamento", <<"compartilhando", "criei">> >>,
       <<"Desabafo", <<"desabafo", "frustrado">> >> >>

RuleMatches(k, title) == AnyIn(CategoryRules[k][2], Lower(title))

\* the titles under check lead every listed keyword to its rule
KeywordsCovered ==
    \A k \in 1..Len(CategoryRules) : \A j \in 1..Len(CategoryRules[k][2]) :
        \E t \in SampleTitles :
            /\ Contains(Lower(t), CategoryRules[k][2][j])
            /\ \A e \in 1..(k - 1) : ~RuleMatches(e, t)

\* C22: the fallback's category is the one of the earliest rule, in the order
\* Pergunta, Pedido de Ajuda, Tutorial, Notícia, Opinião, Compartilhamento,
\* Desabafo, that has a keyword in the title, and Discussão when no rule has.
C22_CategoryFirstMatch ==
    (FallbackUsed /\ ~out.raised)
    => /\ \A k \in 1..Len(CategoryRules) :
             (RuleMatches(k, inp.title) /\ \A e \in 1..(k - 1) : ~RuleMatches(e, inp.title))
                => out.value.v["categoria"] = JStr(CategoryRules[k][1])
       /\ (\A k \in 1..Len(CategoryRules) : ~RuleMatches(k, inp.title))
             => out.value.v["categoria"] = JStr("Discussão")

C22_Witness ==
    /\ FallbackUsed /\ ~out.raised
    /\ KeywordsCovered
    /\ inp.title = "Dúvida sobre python: como resolver este problema?"
    /\ RuleMatches(1, inp.title) /\ RuleMatches(2, inp.title)
    /\ out.value.v["categoria"] = JStr("Pergunta")

\* the remote path of the call failed: the request or the parse of its answer
RemoteCallFailed ==
    /\ pc = "done" /\ inp.op = "classify_post" /\ ~inp.use_mock
    /\ inp.outcome.kind \in {"transport_error", "auth_failure", "non_json"}

\* C25: a classify_post call issues at most one remote inference call; a
\* failed one is followed by exactly one fallback classification and no second
\* remote call; a classifier constructed without an API key issues none.
C25_AbsorbedOnce ==
    (pc = "done" /\ inp.op = "classify_post")
    => /\ out.remote_calls <= 1
       /\ RemoteCallFailed
             => (~out.raised /\ out.remote_calls = 1 /\ out.fallback_calls = 1)
       /\ inp.use_mock => out.remote_calls = 0

C25_Witness ==
    /\ RemoteCallFailed
    /\ inp.outcome.kind = "transport_error"
    /\ out.remote_calls = 1 /\ out.fallback_calls = 1
    /\ out.value = _mock_classify_post(inp.title, inp.text)

\* the posts the file stores under the topic
StoredUnder(topic) == {mock_data[topic][k] : k \in 1..Len(mock_data[topic])}

\* the candidates of a lower-cased query: the posts of the topic it names, or
\* else the posts of the topics whose key contains it and the other posts
\* whose title or body contains it
Candidates(q) ==
    IF q \in DOMAIN mock_data
    THEN StoredUnder(q)
    ELSE UNION { IF Contains(topic, q) THEN StoredUnder(topic)
                 ELSE {post \in StoredUnder(topic) : PostMatches(post, q)}
                 : topic \in DOMAIN mock_data }

\* the candidates of the call that are of the community asked for
ScopedCandidates(i) ==
    {post \in Candidates(Lower(i.query)) :
        i.subreddit # None => Lower(post["subreddit"]) = Lower(Val(i.subreddit))}

\* C23: the posts search_posts returns are candidates of the query (the posts
\* of the topic the lower-cased query names, or else those of every topic whose
\* key contains it and every other post whose title or body contains it) that
\* are of the community asked for, none of them twice, and as many of them as
\* the limit allows.
C23_LookupCandidates ==
    FetchDone
    => /\ \A k \in 1..Len(out.posts) : out.posts[k] \in ScopedCandidates(inp)
       /\ \A j, k \in 1..Len(out.posts) : j # k => out.posts[j] # out.posts[k]
       /\ Len(out.posts) = (IF Cardinality(ScopedCandidates(inp)) < inp.limit
                            THEN Cardinality(ScopedCandidates(inp)) ELSE inp.limit)

C23_Witness ==
    /\ FetchDone
    /\ inp.query = "AI" /\ inp.subreddit = None /\ inp.limit = 10
    /\ PostMatches(wd1, "ai")
    /\ Len(out.posts) = 2
    /\ out.posts[1]["id"] = "ai0001" /\ out.posts[2]["id"] = "ai0002"

C26_BodyTruncated ==
    FormatDone
    => \A k \in 1..Len(inp.posts) :
          LET body == DictGet(inp.posts[k], "selftext", "") IN
          /\ Len(body) <= 500 => out.df[k].selftext = body
          /\ Len(body) > 500 => out.df[k].selftext = SubSeq(body, 1, 500) \o "..."

C26_Witness ==
    /\ FormatDone
    /\ Len(inp.posts) = 2
    /\ DictGet(inp.posts[1], "id", "") = "lg0500"
    /\ DictGet(inp.posts[2], "id", "") = "lg0503"
    /\ Len(inp.posts[1].selftext) = 500
    /\ Len(inp.posts[2].selftext) = 503
    /\ out.df[1].selftext = inp.posts[1].selftext
    /\ Len(out.df[2].selftext) = 503
    /\ out.df[2].selftext = Body500 \o "..."

\* C24: in a search whose fetch is non-empty the steps come in the order
\* fetch, format, classify-all, snapshot, filter: the frame stored in
\* original_results is taken once every post is classified and before any
\* predicate runs, so it holds every fetched post, in order, with the four
\* derived fields, and nothing the filters do (the dropped rows, the datetime
\* column of line 175, an exception of line 197) changes it.
C24_SnapshotBeforeFilter ==
    (SearchDone /\ FetchedOf(inp) # <<>>)
    => /\ \E n \in 3..5 :
             out.steps = SubSeq(<<"fetch", "format", "classify_all", "snapshot", "filter">>, 1, n)
       /\ InSeq("snapshot", out.steps) <=> ~ClassifiedOf(inp).raised
       /\ InSeq("snapshot", out.steps)
             => /\ InSeq("filter", out.steps)
                /\ out.snapshot = Some(ClassifiedOf(inp).df)
                /\ Len(Val(out.snapshot)) = Len(FetchedOf(inp))
                /\ \A k \in 1..Len(FetchedOf(inp)) :
                      /\ Val(out.snapshot)[k]["id"] = FetchedOf(inp)[k]["id"]
                      /\ FourKeys \subseteq DOMAIN Val(out.snapshot)[k]
                      /\ "datetime" \notin DOMAIN Val(out.snapshot)[k]

C24_Witness ==
    /\ SearchDone /\ ~out.raised
    /\ inp.days_ago # None /\ ~inp.parse_fails
    /\ out.steps = <<"fetch", "format", "classify_all", "snapshot", "filter">>
    /\ out.filtered # <<>>
    /\ out.ret = Some(out.filtered)
    /\ Len(out.filtered) < Len(Val(out.snapshot))
    /\ "datetime" \in DOMAIN out.filtered[1]
    /\ Len(Val(out.snapshot)) = out.fetched

----------------------------------------------------------------------------
(* Claims about the session: the retained set, the two views, the history *)

\* C29 (as claimed): the result view and the summary view are mutually
\* exclusive: in every state reachable through searches, history re-runs,
\* link analyses and show-all, at most one of current_results and
\* current_summary is not None.
C29_ViewsExclusive ==
    pc = "app" => (current_results = None \/ current_summary = None)

\* the searches of the session and what each stored at line 163
SessionSearchRuns == AppSearchRuns \cup HistoryRuns

\* the frames a search of q may retain when its classification returns
ClassifiedFrames ==
    [q \in AppQueries |->
        { Some(ClassifiedOf(run.in).df) :
            run \in {r \in AppSearchRuns : r.in.query = q /\ r.res.fetched > 0
                                           /\ ~ClassifiedOf(r.in).raised} }]

\* the queries whose fetch is non-empty whatever the widgets hold
FetchingQueries ==
    {q \in AppQueries : \A run \in AppSearchRuns : run.in.query = q => run.res.fetched > 0}

\* a value of original_results is replaced by nothing but the frame a search
\* with a non-empty fetch classified; a link analysis leaves it in place
RetainedReplacedOnlyByFetch ==
    /\ original_results' # original_results
          => \E run \in SessionSearchRuns :
                /\ run.res.fetched > 0
                /\ original_results' = run.res.snapshot
    /\ out'.op = "analyze_button" => original_results' = original_results
    /\ search_history' = Append(search_history, "zzzznoexist")
          => original_results' = original_results

\* C28 (as claimed): the retained unfiltered set is replaced only by a search
\* whose fetch is non-empty (a search that finds nothing and a link analysis
\* leave it in place), and after a search that fetched at least one post the
\* retained set, which show-all displays, is the classified result of that
\* search.
C28_RetainedIsLastFetchingSearch ==
    [][/\ RetainedReplacedOnlyByFetch
       /\ \A q \in FetchingQueries :
             search_history' = Append(search_history, q)
                => original_results' \in ClassifiedFrames[q]]_vars

\* no entry twice
NoDuplicates(history) ==
    \A i, j \in 1..Len(history) : history[i] = history[j] => i = j

\* C30: search_history never contains an entry twice and only grows: a step
\* leaves it as it is or appends one entry that was not in it, a submitted
\* query (also one whose search finds nothing) or a valid URL; a button of
\* the history leaves it unchanged and, for a query, runs the search with no
\* date, body or category filter, so that what is shown is the whole retained
\* set of that search.
C30_HistoryGrowsWithoutDuplicates ==
    /\ [](pc = "app" => NoDuplicates(search_history))
    /\ [][/\ \/ search_history' = search_history
             \/ \E e \in AppQueries \cup {u \in AppUrlInputs : is_url(u)} :
                   /\ ~InSeq(e, search_history)
                   /\ search_history' = Append(search_history, e)
          /\ out'.op = "history_button"
                => /\ search_history' = search_history
                   /\ InSeq(out'.entry, search_history)
                   /\ ~out'.filters_applied
                   /\ out'.entry \in FetchingQueries
                         => (current_results' # None /\ current_results' = original_results')]_vars

C30_Witness ==
    /\ pc = "app"
    /\ out.op = "history_button" /\ out.entry = "python"
    /\ search_history = <<"zzzznoexist", "python", "https://www.reddit.com/r/python/">>
    /\ current_results # None /\ current_results = original_results
    /\ current_summary = None

====
